---------------------------- MODULE Spec2Model ----------------------------
(***************************************************************************)
(* Model of finance-dashboard-api: subscription resolution (the gate       *)
(* requireSubscription and subscriptionService.getActive), the two webhook *)
(* routes (POST /webhooks/stripe, POST /webhooks/gohighlevel) with their   *)
(* services, and the transaction ledger routes.                            *)
(*                                                                         *)
(* The database and auth platform are outside the repository.  They are    *)
(* modelled by what the calls made by the code return:                     *)
(*   - a table is a set of rows; .eq() filters; .single() yields the row   *)
(*     when exactly one row matches and the error PGRST116 otherwise       *)
(*     (none or several rows);                                             *)
(*   - auth.admin.createUser refuses an e-mail that already has an         *)
(*     identity; auth.admin.listUsers returns the identities;              *)
(*   - a delivery may meet one platform fault (auth API down, database     *)
(*     down, magic-link generation failing), drawn as an input.            *)
(* Columns that no decision of the code reads (full_name, created_at,      *)
(* updated_at, current_period_start) are not carried in the rows.          *)
(* Time is a clock `now`; a timestamp t is in the past when t < now.       *)
(***************************************************************************)
EXTENDS Integers, Sequences, FiniteSets, TLC

\* ----------------------------------------------------------------- bounds
\* Largest value of the clock, and the timestamp billing dates carry: the
\* clock starts before it, reaches it and passes it.
MaxTime == 2

BillingDate == 1

\* Length of the hex digest a webhook signature is compared with.
DigestLen == 2

NULL == "NULL"

Emails == {"ana@x.io", "bob@x.io"}
EmailsOrNull == Emails \cup {NULL}

ExternalIds == {"sub_1", "sub_2"}

\* Stripe customer ids and the e-mail stripe.customers.retrieve answers for
\* each; retrieving "cus_gone" throws.
Customers == {"cus_ana", "cus_bob", "cus_gone"}

\* A nullable timestamp is {} (null) or {t}.
BillingDates == {{}, {BillingDate}}

\* Largest number of rows table transactions holds.
MaxTx == 2

\* Largest number of rows table notifications holds.
MaxNotifs == 2

\* Largest number of CRM deliveries served at the same time.
MaxDeliveries == 2

\* Largest number of subscription rows written or about to be written by the
\* deliveries served step by step.
MaxRecords == 3

\* One platform fault at most per delivery.
\* ("db": every database call fails; "write": database writes fail.)
Faults == {"none", "auth", "db", "write", "link"}

VARIABLES
  config,         \* src/config/env.js: isDev, stripe.secretKey, stripe.webhookSecret, ghl.webhookSecret
  now,            \* the clock read by new Date()
  authUsers,      \* auth.users of the platform: rows [id, email, created_from]
  profiles,       \* table profiles: rows [id, email, subscription_status]
  subscriptions,  \* table subscriptions: rows [id, user_id, provider, external_id, status, current_period_end]
  resp,           \* the answer of the request just served (Idle after any other step)
  transactions,   \* table transactions: rows [id, user_id, type, amount, category, date]
  txResp,         \* the answer of the last /transactions request
  categories,     \* table categories: rows [id, user_id, name, type]
  catResp,        \* the answer of the last /categories request
  subcategories,  \* table subcategories: rows [category_id, user_id, name]
  budgetConfig,   \* table budget_config: rows [user_id, year, annual_revenue_target]
  pockets,        \* table budget_pockets: rows [id, user_id, name, percentage]
  budgetResp,     \* the answer of the last /budget request
  notifications,  \* table notifications: rows [id, user_id, read]
  deliveries      \* the CRM deliveries being served: where each stands in upsertFromWebhook

subVars == <<config, now, authUsers, profiles, subscriptions, resp>>
txVars == <<transactions, txResp>>
catVars == <<categories, catResp, subcategories>>
budgetVars == <<budgetConfig, pockets, budgetResp>>
vars == <<config, now, authUsers, profiles, subscriptions, resp, transactions, txResp,
          categories, catResp, subcategories, budgetConfig, pockets, budgetResp,
          notifications, deliveries>>

\* What a request of the subscription/webhook side leaves alone, and what a
\* request of the ledger leaves alone.
outsideSub == <<txVars, catVars, budgetVars, notifications, deliveries>>
outsideTx == <<subVars, catVars, budgetVars, notifications, deliveries>>
outsideCat == <<subVars, txVars, budgetVars, notifications, deliveries>>

\* ------------------------------------------------------- platform helpers

\* .single(): the row when exactly one matches, else no data (PGRST116).
\* A nullable row is {} (null) or {row}.
Single(rows) == IF Cardinality(rows) = 1 THEN rows ELSE {}

The(row) == CHOOSE r \in row : TRUE

\* The snapshot of the three stores a handler works on.
DB == [authUsers |-> authUsers, profiles |-> profiles, subscriptions |-> subscriptions]

UserIds == 1..Cardinality(Emails)

\* ------------------------------------------------ subscription resolution

\* 'active' rows of a user in table subscriptions.
ActiveRows(db, userId) ==
  {s \in db.subscriptions : s.user_id = userId /\ s.status = "active"}

ProfileOf(db, userId) == Single({p \in db.profiles : p.id = userId})

\* The subscription synthesized from a profile whose flag reads 'active'.
ProfileSubscription(profile) ==
  [id |-> <<"profile", profile.id>>, status |-> "active", provider |-> "ghl_webhook"]

\* requireSubscription without the profile step: table subscriptions alone decides.
requireSubscription_tableOnly(db, t, user) ==
  IF user = {}
  THEN [code |-> "UNAUTHORIZED", subscription |-> {}]
  ELSE
    LET subscription == Single(ActiveRows(db, The(user)))
    IN IF subscription = {}
       THEN [code |-> "SUBSCRIPTION_INACTIVE", subscription |-> {}]
       ELSE IF \E endDate \in The(subscription).current_period_end : endDate < t
       THEN [code |-> "SUBSCRIPTION_INACTIVE", subscription |-> {}]
       ELSE [code |-> "next", subscription |-> subscription]

\* middlewares/subscription.js requireSubscription: the answer for req.user
\* ({}: no authenticated user, {id} otherwise), with the subscription attached
\* to the request ({}: none).
requireSubscription(db, t, user) ==
  IF user = {}
  THEN [code |-> "UNAUTHORIZED", subscription |-> {}]
  ELSE
    LET userId == The(user)
        profile == ProfileOf(db, userId)
        subscription == Single(ActiveRows(db, userId))
    IN IF profile # {} /\ The(profile).subscription_status = "active"
       THEN [code |-> "next", subscription |-> {ProfileSubscription(The(profile))}]
       ELSE IF subscription = {}
       THEN [code |-> "SUBSCRIPTION_INACTIVE", subscription |-> {}]
       ELSE IF \E endDate \in The(subscription).current_period_end : endDate < t
       THEN [code |-> "SUBSCRIPTION_INACTIVE", subscription |-> {}]
       ELSE [code |-> "next", subscription |-> subscription]

\* The subscription attached in development mode.
DevSubscription ==
  [id |-> <<"dev-subscription">>, status |-> "active", provider |-> "development"]

\* requireSubscriptionOrDev taking the bypass in every mode.
requireSubscriptionOrDev_always(db, t, user) ==
  [code |-> "next", subscription |-> {DevSubscription}]

\* middlewares/subscription.js requireSubscriptionOrDev.
requireSubscriptionOrDev(db, t, user) ==
  IF config.isDev
  THEN [code |-> "next", subscription |-> {DevSubscription}]
  ELSE requireSubscription(db, t, user)

\* services/subscription.js getActive: the subscription returned ({}: null).
getActive(db, userId) ==
  LET profile == ProfileOf(db, userId)
      data == Single(ActiveRows(db, userId))
  IN IF profile # {} /\ The(profile).subscription_status = "active"
     THEN {ProfileSubscription(The(profile))}
     ELSE data

\* ------------------------------------------------------ webhook signatures

\* The hex digest the HMAC of a payload comes to: DigestLen digits that
\* depend on the payload (here on the length of its type name).
Digest(payload) ==
  [i \in 1..DigestLen |-> IF (i + Len(payload.type)) % 2 = 0 THEN "0" ELSE "1"]

Flip(sig) == [i \in 1..Len(sig) |-> IF sig[i] = "0" THEN "1" ELSE "0"]

\* The signatures a delivery of `payload` may carry: none (the header is
\* absent or empty: <<>>), the right one, one of the right length and wrong
\* value, one too short, one too long.
SignaturesFor(payload) ==
  LET d == Digest(payload)
  IN {<<>>, d, Flip(d), SubSeq(d, 1, DigestLen - 1), d \o <<"0">>}

\* What a service handler returns: the stores after it, its result object
\* (tag: unhandled | error | success | pending | upserted) and whether it threw.
Result(tag) == [tag |-> tag, userId |-> {}, isNew |-> NULL, status |-> NULL]

Outcome(db, result) == [db |-> db, result |-> result, threw |-> FALSE]

Thrown(db) == [db |-> db, result |-> Result("thrown"), threw |-> TRUE]

\* ---------------------------------------------------------- stripe service

StripeStatuses ==
  {"active", "past_due", "canceled", "incomplete", "incomplete_expired",
   "trialing", "unpaid", "paused"}

\* services/stripe.js handleSubscriptionUpdate: statusMap[status] || 'none'.
statusMap(status) ==
  CASE status \in {"active", "past_due", "trialing"} -> "active"
    [] status \in {"canceled", "unpaid"} -> "cancelled"
    [] OTHER -> "none"

\* stripe.customers.retrieve(customer).email: NULL when the retrieval throws or
\* the Stripe client is not configured (no secret key).
CustomerEmail(customer) ==
  IF ~config.stripeKey THEN NULL
  ELSE CASE customer = "cus_ana" -> "ana@x.io"
         [] customer = "cus_bob" -> "bob@x.io"
         [] OTHER -> NULL

\* The events POST /webhooks/stripe may receive, over given e-mails, customer
\* ids, subscription statuses and subscription ids.
StripeEventsOf(emails, customers, statuses, ids) ==
  [type : {"checkout.session.completed"}, customer_email : emails \cup {NULL},
   details_email : emails \cup {NULL}]
  \cup [type : {"invoice.paid", "invoice.payment_failed"},
        customer_email : emails \cup {NULL}, customer : customers \cup {NULL}]
  \cup [type : {"customer.subscription.created", "customer.subscription.updated"},
        id : ids, customer : customers, status : statuses]
  \cup [type : {"customer.subscription.deleted"}, id : ids, customer : customers]
  \cup [type : {"charge.refunded"}]

\* activateUserSubscription without the search of the existing identities: it
\* goes straight to createUser.
activateUserSubscription_noLookup(db, email, fault) ==
  LET createError == fault = "auth" \/ \E u \in db.authUsers : u.email = email
      newUser == [id |-> Cardinality(db.authUsers) + 1, email |-> email,
                  created_from |-> "stripe_webhook"]
      row == [id |-> newUser.id, email |-> email, subscription_status |-> "active"]
  IN IF createError
     THEN Outcome(db, Result("error"))
     ELSE Outcome(
            [db EXCEPT
               !.authUsers = @ \cup {newUser},
               !.profiles = IF fault \in {"db", "write"} THEN @
                            ELSE {p \in @ : p.id # newUser.id} \cup {row}],
            [Result("success") EXCEPT !.userId = {newUser.id}, !.isNew = "yes",
                                      !.status = IF fault = "link" THEN "magicLinkError"
                                                 ELSE "magicLinkSent"])

\* services/stripe.js activateUserSubscription.
activateUserSubscription(db, email, fault) ==
  LET users == IF fault = "auth" THEN {} ELSE db.authUsers
      found == {u \in users : u.email = email}
      createError == fault = "auth" \/ \E u \in db.authUsers : u.email = email
      newUser == [id |-> Cardinality(db.authUsers) + 1, email |-> email,
                  created_from |-> "stripe_webhook"]
      authUser == IF found = {} THEN newUser ELSE CHOOSE u \in found : TRUE
      row == [id |-> authUser.id, email |-> authUser.email, subscription_status |-> "active"]
  IN IF found = {} /\ createError
     THEN Outcome(db, Result("error"))
     ELSE Outcome(
            [db EXCEPT
               !.authUsers = IF found = {} THEN @ \cup {newUser} ELSE @,
               !.profiles = IF fault \in {"db", "write"} THEN @
                            ELSE {p \in @ : p.id # authUser.id} \cup {row}],
            [Result("success") EXCEPT !.userId = {authUser.id}, !.isNew = IF found = {} THEN "yes" ELSE "no",
                                      !.status = IF fault = "link" THEN "magicLinkError"
                                                 ELSE "magicLinkSent"])

\* The fast path when it also records the payment in table subscriptions.
handleCheckoutComplete_withRecord(db, session, fault) ==
  LET email == IF session.customer_email # NULL THEN session.customer_email
               ELSE session.details_email
      out == activateUserSubscription(db, email, fault)
  IN IF email = NULL THEN Outcome(db, Result("error"))
     ELSE [out EXCEPT !.db.subscriptions =
             @ \cup {[id |-> <<"checkout", Cardinality(@)>>, user_id |-> 0,
                      provider |-> "stripe", external_id |-> "checkout",
                      status |-> "active", current_period_end |-> {}]}]

\* services/stripe.js handleCheckoutComplete.
handleCheckoutComplete(db, session, fault) ==
  LET email == IF session.customer_email # NULL THEN session.customer_email
               ELSE session.details_email
  IN IF email = NULL THEN Outcome(db, Result("error"))
     ELSE activateUserSubscription(db, email, fault)

\* services/stripe.js handleInvoicePaid.
handleInvoicePaid(db, invoice, fault) ==
  LET email == IF invoice.customer_email # NULL THEN invoice.customer_email
               ELSE IF invoice.customer # NULL THEN CustomerEmail(invoice.customer)
               ELSE NULL
  IN IF email = NULL THEN Outcome(db, Result("error"))
     ELSE activateUserSubscription(db, email, fault)

\* services/stripe.js handleSubscriptionUpdate: writes the mapped status to the
\* profile with the customer's e-mail (update ... .select().single()).
handleSubscriptionUpdate(db, subscription, fault) ==
  LET customerEmail == CustomerEmail(subscription.customer)
      status == statusMap(subscription.status)
      hit == {p \in db.profiles : p.email = customerEmail}
  IN IF customerEmail = NULL THEN Outcome(db, Result("error"))
     ELSE Outcome(
            [db EXCEPT !.profiles =
               IF fault \in {"db", "write"} \/ Cardinality(hit) # 1 THEN @
               ELSE {IF p \in hit THEN [p EXCEPT !.subscription_status = status] ELSE p
                     : p \in @}],
            [Result("success") EXCEPT !.status = status])

\* services/stripe.js handleSubscriptionDeleted.
handleSubscriptionDeleted(db, subscription, fault) ==
  LET customerEmail == CustomerEmail(subscription.customer)
  IN Outcome(
       [db EXCEPT !.profiles =
          IF customerEmail = NULL \/ fault \in {"db", "write"} THEN @
          ELSE {IF p.email = customerEmail
                THEN [p EXCEPT !.subscription_status = "cancelled"] ELSE p : p \in @}],
       Result("success"))

\* services/stripe.js handlePaymentFailed (stripe): nothing is written.
stripeHandlePaymentFailed(db, invoice, fault) ==
  Outcome(db, [Result("success") EXCEPT !.status = "paymentFailed"])

\* A payload that carries a type and no data: reading a field of its data throws.
NoData(types) == [type : types, nodata : {TRUE}]

HasData(payload) == "nodata" \notin DOMAIN payload

StripeHandled ==
  {"checkout.session.completed", "invoice.paid", "customer.subscription.created",
   "customer.subscription.updated", "customer.subscription.deleted",
   "invoice.payment_failed"}

\* services/stripe.js handleWebhookEvent.
stripeHandleWebhookEvent(db, event, fault) ==
  CASE event.type \in StripeHandled /\ ~HasData(event) -> Thrown(db)
    [] event.type = "checkout.session.completed" -> handleCheckoutComplete(db, event, fault)
    [] event.type = "invoice.paid" -> handleInvoicePaid(db, event, fault)
    [] event.type \in {"customer.subscription.created", "customer.subscription.updated"} ->
         handleSubscriptionUpdate(db, event, fault)
    [] event.type = "customer.subscription.deleted" -> handleSubscriptionDeleted(db, event, fault)
    [] event.type = "invoice.payment_failed" -> stripeHandlePaymentFailed(db, event, fault)
    [] OTHER -> Outcome(db, Result("unhandled"))

\* services/stripe.js verifyWebhookSignature: TRUE when constructEvent returns
\* the event, FALSE when it (or the configuration check) throws.
stripeVerifyWebhookSignature(payload, signature) ==
  IF ~config.stripeKey \/ ~config.stripeWebhookSecret THEN FALSE
  ELSE signature = Digest(payload)

\* ------------------------------------------------------------- CRM service

\* Raw status values of a CRM 'subscription.updated' event (NULL: absent).
GhlStatuses ==
  {"active", "ACTIVE", "cancelled", "canceled", "Canceled", "past_due", "unpaid",
   "paused", "expired", "", "constructor", NULL}

\* String.prototype.toLowerCase on the values above.
toLowerCase(str) ==
  CASE str = "ACTIVE" -> "active"
    [] str = "Canceled" -> "canceled"
    [] str = "Ventas" -> "ventas"
    [] str = "Otros Gastos" -> "otros gastos"
    [] str = "Nómina" -> "nómina"
    [] str = "Sin categoría" -> "sin categoría"
    [] OTHER -> str

\* What statusMap[key] reads for a key that is no own property of the object
\* literal: undefined (NULL), or for 'constructor' the function inherited from
\* Object.prototype.
ObjectFunction == "function Object"

Inherited(key) == IF key = "constructor" THEN ObjectFunction ELSE NULL

\* services/gohighlevel.js mapStatus: statusMap[ghlStatus?.toLowerCase()] || 'inactive'.
mapStatus(ghlStatus) ==
  LET key == IF ghlStatus = NULL THEN NULL ELSE toLowerCase(ghlStatus)
      value == CASE key = "active" -> "active"
                 [] key \in {"cancelled", "canceled"} -> "cancelled"
                 [] key \in {"past_due", "unpaid"} -> "past_due"
                 [] key = "paused" -> "inactive"
                 [] OTHER -> Inherited(key)
  IN IF value = NULL THEN "inactive" ELSE value

\* The payloads POST /webhooks/gohighlevel may receive, over given e-mails,
\* subscription ids, statuses and billing dates.
GhlEventsOf(emails, ids, statuses, dates) ==
  [type : {"order.completed", "subscription.created"}, email : emails \cup {NULL},
   subscription_id : ids, next_billing_date : dates]
  \cup [type : {"subscription.updated"}, subscription_id : ids,
        status : statuses, next_billing_date : dates]
  \cup [type : {"subscription.cancelled", "subscription.deleted"}, subscription_id : ids]
  \cup [type : {"payment.succeeded", "payment.failed"}, subscription_id : ids \cup {NULL}]
  \cup [type : {"contact.created"}]

\* services/gohighlevel.js findOrCreateUser: the stores and the value returned:
\* kind "profile" with the profile found or inserted, "no_id" for {id: null,
\* email} when the e-mail has no identity, "null" when the insert of the
\* profile returned no row.
findOrCreateUser(db, email, fault) ==
  LET profile == IF fault = "db" THEN {}
                 ELSE Single({p \in db.profiles : p.email = email})
      users == IF fault = "auth" THEN {} ELSE db.authUsers
      found == {u \in users : u.email = email}
      authUser == CHOOSE u \in found : TRUE
      row == [id |-> authUser.id, email |-> authUser.email, subscription_status |-> NULL]
      insertFails == fault \in {"db", "write"} \/ \E p \in db.profiles : p.id = authUser.id
  IN IF profile # {} THEN [db |-> db, kind |-> "profile", user |-> profile]
     ELSE IF found # {}
     THEN IF insertFails THEN [db |-> db, kind |-> "null", user |-> {}]
          ELSE [db |-> [db EXCEPT !.profiles = @ \cup {row}], kind |-> "profile",
                user |-> {row}]
     ELSE [db |-> db, kind |-> "no_id", user |-> {}]

\* services/subscription.js upsertFromWebhook: find by external_id, then
\* update that row or insert a new one; a failing write throws.
upsertFromWebhook(db, userId, provider, externalId, status, periodEnd, fault) ==
  LET existing == IF fault = "db" THEN {}
                  ELSE Single({s \in db.subscriptions : s.external_id = externalId})
      row == [id |-> <<externalId, Cardinality({s \in db.subscriptions :
                                                s.external_id = externalId})>>,
              user_id |-> userId,
              provider |-> provider, external_id |-> externalId, status |-> status,
              current_period_end |-> periodEnd]
  IN IF fault \in {"db", "write"} THEN Thrown(db)
     ELSE IF existing # {}
     THEN Outcome(
            [db EXCEPT !.subscriptions =
               {IF s.id = The(existing).id
                THEN [s EXCEPT !.status = status, !.current_period_end = periodEnd]
                ELSE s : s \in @}],
            [Result("upserted") EXCEPT !.isNew = "no", !.status = status])
     ELSE Outcome([db EXCEPT !.subscriptions = @ \cup {row}],
                  [Result("upserted") EXCEPT !.isNew = "yes", !.status = status])

\* upsertFromWebhook, the first await: the row found by external_id.
findExisting(rows, externalId) == Single({s \in rows : s.external_id = externalId})

\* upsertFromWebhook writing a new row whatever the lookup found.
writeUpsert_insertAlways(rows, existing, userId, provider, externalId, status, periodEnd) ==
  rows \cup {[id |-> <<externalId, Cardinality({s \in rows : s.external_id = externalId})>>,
              user_id |-> userId, provider |-> provider, external_id |-> externalId,
              status |-> status, current_period_end |-> periodEnd]}

\* upsertFromWebhook, the second await: the update of the row found, by its
\* id, or the insert of a new one; the table after it.
writeUpsert(rows, existing, userId, provider, externalId, status, periodEnd) ==
  IF existing # {}
  THEN {IF s.id = The(existing).id
        THEN [s EXCEPT !.status = status, !.current_period_end = periodEnd]
        ELSE s : s \in rows}
  ELSE rows \cup {[id |-> <<externalId,
                            Cardinality({s \in rows : s.external_id = externalId})>>,
                    user_id |-> userId, provider |-> provider, external_id |-> externalId,
                    status |-> status, current_period_end |-> periodEnd]}

\* services/gohighlevel.js handleSubscriptionCreated.
handleSubscriptionCreated(db, data, fault) ==
  IF data.email = NULL THEN Outcome(db, Result("error"))
  ELSE LET f == findOrCreateUser(db, data.email, fault)
       IN IF f.kind = "null" THEN Thrown(f.db)
          ELSE IF f.kind = "no_id" THEN Outcome(f.db, Result("pending"))
          ELSE upsertFromWebhook(f.db, The(f.user).id, "gohighlevel", data.subscription_id,
                                 "active", data.next_billing_date, fault)

\* update(...).eq('external_id', id): the rows after the update.  A status that
\* is a function has no place in the JSON body of the request, so the column
\* keeps its value.
UpdateByExternalId(rows, externalId, status, setEnd, periodEnd) ==
  {IF s.external_id = externalId
   THEN [s EXCEPT !.status = IF status = ObjectFunction THEN @ ELSE status,
                  !.current_period_end = IF setEnd THEN periodEnd ELSE @]
   ELSE s : s \in rows}

\* services/gohighlevel.js handleSubscriptionUpdated (update ... .select().single()).
handleSubscriptionUpdated(db, data, fault) ==
  LET status == mapStatus(data.status)
      hit == {s \in db.subscriptions : s.external_id = data.subscription_id}
  IN IF fault \in {"db", "write"} \/ Cardinality(hit) # 1
     THEN Outcome(db, Result("error"))
     ELSE Outcome(
            [db EXCEPT !.subscriptions =
               UpdateByExternalId(@, data.subscription_id, status, TRUE,
                                  data.next_billing_date)],
            [Result("success") EXCEPT !.status = status])

\* handleSubscriptionCancelled also resetting the profile flag of the owner of
\* the cancelled record.
handleSubscriptionCancelled_resetsFlag(db, data, fault) ==
  LET hit == {s \in db.subscriptions : s.external_id = data.subscription_id}
      owners == {s.user_id : s \in hit}
  IN Outcome(
       [db EXCEPT
          !.subscriptions =
             IF fault \in {"db", "write"} \/ Cardinality(hit) # 1 THEN @
             ELSE UpdateByExternalId(@, data.subscription_id, "cancelled", FALSE, {}),
          !.profiles =
             IF fault \in {"db", "write"} \/ Cardinality(hit) # 1 THEN @
             ELSE {IF p.id \in owners THEN [p EXCEPT !.subscription_status = "cancelled"]
                   ELSE p : p \in @}],
       Result("success"))

\* services/gohighlevel.js handleSubscriptionCancelled (update ... .select().single()).
handleSubscriptionCancelled(db, data, fault) ==
  LET hit == {s \in db.subscriptions : s.external_id = data.subscription_id}
  IN Outcome(
       [db EXCEPT !.subscriptions =
          IF fault \in {"db", "write"} \/ Cardinality(hit) # 1 THEN @
          ELSE UpdateByExternalId(@, data.subscription_id, "cancelled", FALSE, {})],
       Result("success"))

\* services/gohighlevel.js handlePaymentSucceeded.
handlePaymentSucceeded(db, data, fault) ==
  Outcome(
    [db EXCEPT !.subscriptions =
       IF data.subscription_id = NULL \/ fault \in {"db", "write"} THEN @
       ELSE UpdateByExternalId(@, data.subscription_id, "active", FALSE, {})],
    Result("success"))

\* services/gohighlevel.js handlePaymentFailed.
handlePaymentFailed(db, data, fault) ==
  Outcome(
    [db EXCEPT !.subscriptions =
       IF data.subscription_id = NULL \/ fault \in {"db", "write"} THEN @
       ELSE UpdateByExternalId(@, data.subscription_id, "past_due", FALSE, {})],
    Result("success"))

GhlHandled ==
  {"order.completed", "subscription.created", "subscription.updated",
   "subscription.cancelled", "subscription.deleted", "payment.succeeded",
   "payment.failed"}

\* services/gohighlevel.js handleWebhookEvent.
ghlHandleWebhookEvent(db, payload, fault) ==
  CASE payload.type \in GhlHandled /\ ~HasData(payload) -> Thrown(db)
    [] payload.type \in {"order.completed", "subscription.created"} ->
         handleSubscriptionCreated(db, payload, fault)
    [] payload.type = "subscription.updated" -> handleSubscriptionUpdated(db, payload, fault)
    [] payload.type \in {"subscription.cancelled", "subscription.deleted"} ->
         handleSubscriptionCancelled(db, payload, fault)
    [] payload.type = "payment.succeeded" -> handlePaymentSucceeded(db, payload, fault)
    [] payload.type = "payment.failed" -> handlePaymentFailed(db, payload, fault)
    [] OTHER -> Outcome(db, Result("unhandled"))

\* crypto.timingSafeEqual(a, b): throws when the lengths differ.
timingSafeEqual(a, b) ==
  IF Len(a) # Len(b) THEN "throw" ELSE IF a = b THEN "true" ELSE "false"

\* services/gohighlevel.js verifyWebhookSignature: "true", "false" or "throw".
ghlVerifyWebhookSignature(payload, signature) ==
  IF ~config.ghlWebhookSecret
  THEN IF config.isDev THEN "true" ELSE "false"
  ELSE timingSafeEqual(signature, Digest(payload))

\* ------------------------------------------------------------------ routes

SigClass(payload, signature) ==
  IF signature = <<>> THEN "none"
  ELSE IF signature = Digest(payload) THEN "valid"
  ELSE IF Len(signature) = DigestLen THEN "wrong_value" ELSE "wrong_length"

\* utils/response.js sendError(res, code): an error envelope; nothing was processed.
sendError(route, code, sig) ==
  [op |-> route, code |-> code, received |-> FALSE, error |-> FALSE,
   processed |-> FALSE, result |-> NULL, isNew |-> NULL, userId |-> {}, sig |-> sig]

\* The catch branch answering with the error instead of acknowledging.
success_rethrow(route, sig, processed, out) ==
  [op |-> route, code |-> IF out.threw THEN "INTERNAL_ERROR" ELSE "OK",
   received |-> ~out.threw, error |-> out.threw,
   processed |-> processed, result |-> out.result.tag, isNew |-> out.result.isNew,
   userId |-> out.result.userId, sig |-> sig]

\* utils/response.js success(res, {received: true, ...result}), and the catch
\* branch success(res, {received: true, error: err.message}).
success(route, sig, processed, out) ==
  [op |-> route, code |-> "OK", received |-> TRUE, error |-> out.threw,
   processed |-> processed, result |-> out.result.tag, isNew |-> out.result.isNew,
   userId |-> out.result.userId, sig |-> sig]

\* POST /webhooks/stripe without the signature step.
stripeRoute_noVerify(db, event, signature, fault) ==
  LET out == stripeHandleWebhookEvent(db, event, fault)
  IN [db |-> out.db, resp |-> success("stripe", SigClass(event, signature), TRUE, out)]

\* routes/webhooks.js router.post('/stripe'): the stores and the response.
stripeRoute(db, event, signature, fault) ==
  LET sig == SigClass(event, signature)
      out == stripeHandleWebhookEvent(db, event, fault)
  IN IF signature = <<>> /\ ~config.isDev
     THEN [db |-> db, resp |-> sendError("stripe", "UNAUTHORIZED", sig)]
     ELSE IF ~config.isDev /\ config.stripeWebhookSecret
             /\ ~stripeVerifyWebhookSignature(event, signature)
     THEN [db |-> db, resp |-> sendError("stripe", "UNAUTHORIZED", sig)]
     ELSE [db |-> out.db, resp |-> success("stripe", sig, TRUE, out)]

\* routes/webhooks.js router.post('/gohighlevel'): the stores and the response.
ghlRoute(db, payload, signature, fault) ==
  LET sig == SigClass(payload, signature)
      check == IF ~config.isDev /\ config.ghlWebhookSecret
               THEN ghlVerifyWebhookSignature(payload, signature) ELSE "true"
      out == ghlHandleWebhookEvent(db, payload, fault)
  IN CASE check = "throw" -> [db |-> db, resp |-> success("ghl", sig, FALSE, Thrown(db))]
       [] check = "false" -> [db |-> db, resp |-> sendError("ghl", "UNAUTHORIZED", sig)]
       [] OTHER -> [db |-> out.db, resp |-> success("ghl", sig, TRUE, out)]

\* ------------------------------------------------------------------ ledger
\* The routes of /transactions, for a caller that authenticate and
\* requireSubscriptionOrDev have let through (req.user.id = userId).  The
\* columns the routes never decide on (category, description, the invoice and
\* provider fields) are not carried; database calls are taken to succeed.

\* The ids the database gives to rows (uuids), and the ids a request may name:
\* those and a malformed one.
TxIds == 1..MaxTx

RequestIds == TxIds \cup {0}

TxTypes == {"income", "expense", "transfer"}

\* The bodies of POST /transactions (type NULL, date {}: field absent).
TxBodies ==
  [type : {"income", "bogus", NULL}, amount : {0, 1}, date : {{}, {1}}, category : {NULL}]

\* Category labels, as a transaction carries them and as a category is named.
Labels == {"Ventas", "ventas"}

\* Bodies that carry a category label.
LabelledBodies == [type : {"income"}, amount : {1}, date : {{1}}, category : Labels]

\* The bodies of PUT /transactions/:id: a sparse patch (type NULL, amount {}:
\* field absent; date {}: field absent or the empty string).
TxPatches ==
  [type : {"expense", "bogus", NULL}, date : {{}, {2}}, amount : {{}}, category : {{}}]

\* Patches that carry an amount.
AmountPatches ==
  [type : {"bogus", NULL}, date : {{}}, amount : {{}, {-5}, {0}, {2}}, category : {{}}]

\* The query strings of GET /transactions (NULL: parameter absent).
MaxLimit == 100

DefaultPage == 1

DefaultLimit == 20

TxQueries ==
  [type : {"income", NULL}, from : {{}, {2}}, order : {"asc", "desc"},
   page : {"0", "2", "abc"}, limit : {"0", "1", "1000", NULL}]

\* parseInt on the parameter values above: {n} for a number, {} for NaN.
parseInt(str) ==
  CASE str = "0" -> {0}
    [] str = "1" -> {1}
    [] str = "2" -> {2}
    [] str = "1000" -> {1000}
    [] OTHER -> {}

\* The envelope of a /transactions answer: the row of a single-row answer
\* ({}: none) and the page of a list answer.
TxAnswer(op, userId, id, code, transaction, page) ==
  [op |-> op, user |-> userId, id |-> id, code |-> code,
   transaction |-> transaction, transactions |-> page]

\* middlewares/validate.js validateUUID.
validateUUID(id) == id \in TxIds

\* middlewares/validate.js validateBody with the field list of POST /transactions.
validateBody(body) ==
  /\ body.type # NULL /\ body.date # {}
  /\ body.amount >= 1
  /\ body.type \in TxTypes

\* GET /transactions/:id.
txGet(rows, userId, id) ==
  LET data == Single({t \in rows : t.id = id /\ t.user_id = userId})
  IN IF ~validateUUID(id)
     THEN [rows |-> rows, resp |-> TxAnswer("get", userId, id, "VALIDATION_ERROR", {}, <<>>)]
     ELSE IF data = {}
     THEN [rows |-> rows, resp |-> TxAnswer("get", userId, id, "NOT_FOUND", {}, <<>>)]
     ELSE [rows |-> rows, resp |-> TxAnswer("get", userId, id, "OK", data, <<>>)]

\* POST /transactions: the row gets the id the database draws.
txCreate(rows, userId, body, id) ==
  LET row == [id |-> id, user_id |-> userId, type |-> body.type,
              amount |-> body.amount,
              category |-> IF body.category = "" THEN NULL ELSE body.category,
              date |-> The(body.date)]
  IN IF ~validateBody(body)
     THEN [rows |-> rows, resp |-> TxAnswer("create", userId, 0, "VALIDATION_ERROR", {}, <<>>)]
     ELSE [rows |-> rows \cup {row}, resp |-> TxAnswer("create", userId, id, "OK", {row}, <<>>)]

\* The row after update(updateData).
Patched(t, patch) ==
  [t EXCEPT !.type = IF patch.type \in TxTypes THEN patch.type ELSE @,
            !.amount = IF patch.amount # {} THEN The(patch.amount) ELSE @,
            !.category = IF patch.category # {} THEN The(patch.category) ELSE @,
            !.date = IF patch.date # {} THEN The(patch.date) ELSE @]

\* PUT /transactions/:id sending whatever updateData holds to the database.
txUpdate_noEmptyCheck(rows, userId, id, patch) ==
  LET existing == Single({t \in rows : t.id = id /\ t.user_id = userId})
      hit == {t \in rows : t.id = id /\ t.user_id = userId}
  IN IF ~validateUUID(id)
     THEN [rows |-> rows, resp |-> TxAnswer("update", userId, id, "VALIDATION_ERROR", {}, <<>>)]
     ELSE IF existing = {}
     THEN [rows |-> rows, resp |-> TxAnswer("update", userId, id, "NOT_FOUND", {}, <<>>)]
     ELSE [rows |-> {IF t \in hit THEN Patched(t, patch) ELSE t : t \in rows},
           resp |-> TxAnswer("update", userId, id, "OK",
                             {Patched(t, patch) : t \in hit}, <<>>)]

\* PUT /transactions/:id.
txUpdate(rows, userId, id, patch) ==
  LET existing == Single({t \in rows : t.id = id /\ t.user_id = userId})
      empty == /\ patch.type \notin TxTypes /\ patch.amount = {}
               /\ patch.category = {} /\ patch.date = {}
      hit == {t \in rows : t.id = id /\ t.user_id = userId}
  IN IF ~validateUUID(id)
     THEN [rows |-> rows, resp |-> TxAnswer("update", userId, id, "VALIDATION_ERROR", {}, <<>>)]
     ELSE IF existing = {}
     THEN [rows |-> rows, resp |-> TxAnswer("update", userId, id, "NOT_FOUND", {}, <<>>)]
     ELSE IF empty
     THEN [rows |-> rows, resp |-> TxAnswer("update", userId, id, "VALIDATION_ERROR", {}, <<>>)]
     ELSE [rows |-> {IF t \in hit THEN Patched(t, patch) ELSE t : t \in rows},
           resp |-> TxAnswer("update", userId, id, "OK",
                             {Patched(t, patch) : t \in hit}, <<>>)]

\* DELETE /transactions/:id with the owner filter left out.
txDelete_anyOwner(rows, userId, id) ==
  LET hit == {t \in rows : t.id = id}
  IN IF ~validateUUID(id)
     THEN [rows |-> rows, resp |-> TxAnswer("delete", userId, id, "VALIDATION_ERROR", {}, <<>>)]
     ELSE IF Single(hit) = {}
     THEN [rows |-> rows, resp |-> TxAnswer("delete", userId, id, "NOT_FOUND", {}, <<>>)]
     ELSE [rows |-> rows \ hit, resp |-> TxAnswer("delete", userId, id, "OK", hit, <<>>)]

\* DELETE /transactions/:id.
txDelete(rows, userId, id) ==
  LET hit == {t \in rows : t.id = id /\ t.user_id = userId}
  IN IF ~validateUUID(id)
     THEN [rows |-> rows, resp |-> TxAnswer("delete", userId, id, "VALIDATION_ERROR", {}, <<>>)]
     ELSE IF Single(hit) = {}
     THEN [rows |-> rows, resp |-> TxAnswer("delete", userId, id, "NOT_FOUND", {}, <<>>)]
     ELSE [rows |-> rows \ hit, resp |-> TxAnswer("delete", userId, id, "OK", hit, <<>>)]

Max(a, b) == IF a > b THEN a ELSE b

Min(a, b) == IF a < b THEN a ELSE b

\* order('date', {ascending}): the orders the database may return the rows in
\* (rows of equal date in any order).
Ordered(rows, ascending) ==
  {seq \in [1..Cardinality(rows) -> rows] :
     /\ \A i, j \in DOMAIN seq : i # j => seq[i] # seq[j]
     /\ \A i, j \in DOMAIN seq :
          i < j => IF ascending THEN seq[i].date <= seq[j].date
                   ELSE seq[i].date >= seq[j].date}

\* The rows the filters of GET /transactions keep.
Matches(rows, userId, query) ==
  {t \in rows :
     /\ t.user_id = userId
     /\ query.type \in TxTypes => t.type = query.type
     /\ \A from \in query.from : t.date >= from}

\* Math.max(1, parseInt(page)): {} when it is NaN.
pageNum(query) ==
  {Max(1, n) : n \in IF query.page = NULL THEN {DefaultPage} ELSE parseInt(query.page)}

\* The limit taken as requested, without the cap.
limitNum_uncapped(query) ==
  {Max(1, n) : n \in IF query.limit = NULL THEN {DefaultLimit} ELSE parseInt(query.limit)}

\* Math.min(100, Math.max(1, parseInt(limit))): {} when it is NaN.
limitNum(query) ==
  {Min(MaxLimit, Max(1, n)) :
     n \in IF query.limit = NULL THEN {DefaultLimit} ELSE parseInt(query.limit)}

\* Math.ceil(count / limit).
CeilDiv(count, limit) == (count + limit - 1) \div limit

\* GET /transactions: the answers the route may give (one per order of the
\* ties).  A range with NaN bounds is refused by the database.
txList(rows, userId, query) ==
  LET matches == Matches(rows, userId, query)
  IN IF pageNum(query) = {} \/ limitNum(query) = {}
     THEN {TxAnswer("list", userId, 0, "INTERNAL_ERROR", {}, <<>>)}
     ELSE LET page == The(pageNum(query))
              limit == The(limitNum(query))
              offset == (page - 1) * limit
          IN {TxAnswer("list", userId, 0, "OK", {},
                       SubSeq(seq, offset + 1, Min(Len(seq), offset + limit)))
                @@ ("pagination" :>
                      [page |-> page, limit |-> limit, total |-> Cardinality(matches),
                       totalPages |-> CeilDiv(Cardinality(matches), limit)])
              : seq \in Ordered(matches, query.order = "asc")}

\* ------------------------------------------------------------- categories
\* POST /categories and DELETE /categories/:id (routes/categories.js), for an
\* authenticated caller.  Icon, colour and subcategories are not carried.

CatIds == {"c1", "c2"}

CatBodies == [name : Labels \cup {NULL}, type : {"income", "transfer"}]

\* The envelope of a /categories answer; count is the number the refusal of a
\* delete quotes in its message.
CatAnswer(op, userId, id, code, count) ==
  [op |-> op, user |-> userId, id |-> id, code |-> code, count |-> count]

\* ilike without wildcards: equality up to the case of the letters.
ilike(a, b) == a = b \/ {a, b} = {"Ventas", "ventas"}

\* String.prototype.trim on the names of the model.
trim(str) == IF str = " Ventas" THEN "Ventas" ELSE str

\* POST /categories: the row gets the id the database draws.
catCreate(cats, userId, body, id) ==
  LET existing == Single({c \in cats : /\ c.user_id = userId /\ c.type = body.type
                                       /\ ilike(c.name, body.name)})
      row == [id |-> id, user_id |-> userId, name |-> trim(body.name), type |-> body.type]
  IN IF body.name = NULL \/ body.type \notin {"income", "expense"} \/ existing # {}
     THEN [cats |-> cats, resp |-> CatAnswer("create", userId, "none", "VALIDATION_ERROR", 0)]
     ELSE [cats |-> cats \cup {row}, resp |-> CatAnswer("create", userId, id, "OK", 0)]

\* The transactions of a user labelled with a category name.
Using(txs, userId, name) == {t \in txs : t.user_id = userId /\ t.category = name}

\* DELETE /categories/:id deleting whatever the transactions say.
catDelete_noCount(cats, txs, userId, id) ==
  LET existing == Single({c \in cats : c.id = id /\ c.user_id = userId})
  IN IF existing = {}
     THEN [cats |-> cats, resp |-> CatAnswer("delete", userId, id, "NOT_FOUND", 0)]
     ELSE [cats |-> cats \ existing, resp |-> CatAnswer("delete", userId, id, "OK", 0)]

\* DELETE /categories/:id.
catDelete(cats, txs, userId, id) ==
  LET existing == Single({c \in cats : c.id = id /\ c.user_id = userId})
      count == Cardinality(Using(txs, userId, The(existing).name))
  IN IF existing = {}
     THEN [cats |-> cats, resp |-> CatAnswer("delete", userId, id, "NOT_FOUND", 0)]
     ELSE IF count > 0
     THEN [cats |-> cats, resp |-> CatAnswer("delete", userId, id, "VALIDATION_ERROR", count)]
     ELSE [cats |-> {c \in cats : ~(c.id = id /\ c.user_id = userId)},
           resp |-> CatAnswer("delete", userId, id, "OK", 0)]

\* PUT /categories/:id with a name in the body ({}: no name): the rename.
catUpdate(cats, userId, id, name) ==
  LET existing == Single({c \in cats : c.id = id /\ c.user_id = userId})
  IN IF existing = {}
     THEN [cats |-> cats, resp |-> CatAnswer("update", userId, id, "NOT_FOUND", 0)]
     ELSE [cats |-> {IF c.id = id /\ c.user_id = userId /\ name # {}
                     THEN [c EXCEPT !.name = trim(The(name))] ELSE c : c \in cats},
           resp |-> CatAnswer("update", userId, id, "OK", 0)]

\* Two of the default categories, one of each type, in the order of allDefaults.
DEFAULT_CATEGORIES ==
  <<[name |-> "Ventas", type |-> "income", subcategories |-> {"Ventas Online"}],
    [name |-> "Otros Gastos", type |-> "expense", subcategories |-> {"Imprevistos"}]>>

\* The ids the database draws for new categories: the unused ones, in order.
CatIdSeq == <<"c1", "c2", "c3", "c4">>

FreshIds(cats) ==
  LET Unused(id) == \A c \in cats : c.id # id
  IN SelectSeq(CatIdSeq, Unused)

\* The key `${c.type}::${c.name.toLowerCase()}`.
TypeName(c) == <<c.type, toLowerCase(c.name)>>

\* initDefaultCategories inserting every default, whatever the user has.
initDefaultCategories_noFilter(cats, subs, userId) ==
  LET toInsert == DEFAULT_CATEGORIES
      ids == FreshIds(cats)
      createdCats == {[id |-> ids[i], user_id |-> userId, name |-> toInsert[i].name,
                       type |-> toInsert[i].type] : i \in 1..Len(toInsert)}
      subsToInsert == UNION {{[category_id |-> ids[i], user_id |-> userId, name |-> n] :
                               n \in toInsert[i].subcategories} : i \in 1..Len(toInsert)}
  IN [cats |-> cats \cup createdCats, subs |-> subs \cup subsToInsert,
      created |-> createdCats, null |-> FALSE]

\* initDefaultCategories: the tables after it, the rows it created and whether
\* it returned null.
initDefaultCategories(cats, subs, userId) ==
  LET existingSet == {TypeName(c) : c \in {x \in cats : x.user_id = userId}}
      Missing(d) == TypeName(d) \notin existingSet
      toInsert == SelectSeq(DEFAULT_CATEGORIES, Missing)
      ids == FreshIds(cats)
      createdCats == {[id |-> ids[i], user_id |-> userId, name |-> toInsert[i].name,
                       type |-> toInsert[i].type] : i \in 1..Len(toInsert)}
      subsToInsert == UNION {{[category_id |-> ids[i], user_id |-> userId, name |-> n] :
                               n \in toInsert[i].subcategories} : i \in 1..Len(toInsert)}
  IN IF toInsert = <<>>
     THEN [cats |-> cats, subs |-> subs, created |-> {}, null |-> TRUE]
     ELSE [cats |-> cats \cup createdCats, subs |-> subs \cup subsToInsert,
           created |-> createdCats, null |-> FALSE]

\* The database has ids left for whatever a seeding may insert.
CanSeed(cats) == Len(FreshIds(cats)) >= Len(DEFAULT_CATEGORIES)

\* budget routes, ensureExpenseCategory: .maybeSingle() yields no data when no
\* row or several rows match; the result of the insert is not read.
ensureExpenseCategory(cats, userId, pocketName) ==
  LET existing == Single({c \in cats : /\ c.user_id = userId /\ c.name = pocketName
                                       /\ c.type = "expense"})
      row == [id |-> FreshIds(cats)[1], user_id |-> userId, name |-> pocketName,
              type |-> "expense"]
  IN IF existing = {} THEN cats \cup {row} ELSE cats

\* The ids the database draws for new pockets.
PocketIdSeq == <<"p1", "p2">>

FreshPocketIds(rows) ==
  LET Unused(id) == \A p \in rows : p.id # id
  IN SelectSeq(PocketIdSeq, Unused)

BudgetAnswer(op, userId, code) == [op |-> op, user |-> userId, code |-> code]

\* POST /budget/pockets (name NULL: absent; percentage {}: undefined).
pocketCreate(rows, cats, userId, body) ==
  LET row == [id |-> FreshPocketIds(rows)[1], user_id |-> userId, name |-> body.name,
              percentage |-> The(body.percentage)]
  IN IF body.name = NULL \/ body.percentage = {}
     THEN [pockets |-> rows, cats |-> cats,
           resp |-> BudgetAnswer("pocket", userId, "VALIDATION_ERROR")]
     ELSE [pockets |-> rows \cup {row},
           cats |-> ensureExpenseCategory(cats, userId, body.name),
           resp |-> BudgetAnswer("pocket", userId, "OK") @@ ("pocket" :> row)]

\* PUT /budget/pockets/bulk, the first loop: the table and the results after
\* the items from index i on (an item with an id updates the caller's pocket of
\* that id, one without is inserted).
RECURSIVE bulkWrite(_, _, _, _, _)
bulkWrite(rows, results, userId, items, i) ==
  IF i > Len(items) THEN [pockets |-> rows, results |-> results]
  ELSE LET item == items[i]
           hit == {p \in rows : item.id = {p.id} /\ p.user_id = userId}
           updated == [The(hit) EXCEPT !.name = item.name, !.percentage = item.percentage]
           created == [id |-> FreshPocketIds(rows)[1], user_id |-> userId,
                       name |-> item.name, percentage |-> item.percentage]
       IN IF item.id # {}
          THEN IF hit = {} THEN bulkWrite(rows, results, userId, items, i + 1)
               ELSE bulkWrite((rows \ hit) \cup {updated}, Append(results, updated),
                              userId, items, i + 1)
          ELSE bulkWrite(rows \cup {created}, Append(results, created), userId, items, i + 1)

\* The second loop: ensureExpenseCategory for each result.
RECURSIVE bulkEnsure(_, _, _, _)
bulkEnsure(cats, userId, results, i) ==
  IF i > Len(results) THEN cats
  ELSE bulkEnsure(ensureExpenseCategory(cats, userId, results[i].name), userId, results, i + 1)

\* PUT /budget/pockets/bulk.
pocketsBulk(rows, cats, userId, items) ==
  LET w == bulkWrite(rows, <<>>, userId, items, 1)
  IN [pockets |-> w.pockets, cats |-> bulkEnsure(cats, userId, w.results, 1),
      resp |-> BudgetAnswer("bulk", userId, "OK") @@ ("pockets" :> w.results)]

\* Bodies of POST /categories with names that differ in case or in blanks.
CatalogBodies == [name : {"Ventas", "ventas", " Ventas"}, type : {"income"}]

\* Names a rename carries.
RenameNames == {{}, {"Otros Gastos"}}

PocketNames == {"Nómina", "Otros Gastos"}

PocketBodies ==
  [name : PocketNames, percentage : {{50}}] \cup {[name |-> NULL, percentage |-> {}]}

\* The arrays of PUT /budget/pockets/bulk: one new pocket; or a pocket to
\* update followed by a new one.
BulkItems ==
  {<<[id |-> {}, name |-> n, percentage |-> 50]>> : n \in PocketNames}
  \cup {<<[id |-> {"p1"}, name |-> "Otros Gastos", percentage |-> 50],
          [id |-> {}, name |-> "Nómina", percentage |-> 50]>>}

\* POST /categories with the bodies above.
CatalogCreate ==
  \E userId \in UserIds, body \in CatalogBodies :
    /\ FreshIds(categories) # <<>>
    /\ LET r == catCreate(categories, userId, body, FreshIds(categories)[1])
       IN /\ categories' = r.cats
          /\ catResp' = r.resp
          /\ UNCHANGED <<subcategories, outsideCat>>

CatUpdate ==
  \E userId \in UserIds, id \in {c.id : c \in categories}, name \in RenameNames :
    LET r == catUpdate(categories, userId, id, name)
    IN /\ categories' = r.cats
       /\ catResp' = r.resp
       /\ UNCHANGED <<subcategories, outsideCat>>

\* POST /categories/init.
CatInit ==
  \E userId \in UserIds :
    /\ CanSeed(categories)
    /\ LET r == initDefaultCategories(categories, subcategories, userId)
       IN /\ categories' = r.cats
          /\ subcategories' = r.subs
          /\ catResp' = CatAnswer("init", userId, "none", "OK", Cardinality(r.created))
                           @@ ("null" :> r.null)
          /\ UNCHANGED outsideCat

\* GET /categories: the defaults are synchronised, then the list is answered.
CatList ==
  \E userId \in UserIds :
    /\ CanSeed(categories)
    /\ LET r == initDefaultCategories(categories, subcategories, userId)
       IN /\ categories' = r.cats
          /\ subcategories' = r.subs
          /\ catResp' = CatAnswer("list", userId, "none", "OK",
                                  Cardinality({c \in r.cats : c.user_id = userId}))
          /\ UNCHANGED outsideCat

\* What a /budget request on pockets leaves alone.
outsidePockets == <<subVars, txVars, catResp, subcategories, budgetConfig, notifications,
                    deliveries>>

PocketCreate ==
  \E userId \in UserIds, body \in PocketBodies :
    /\ FreshIds(categories) # <<>>
    /\ FreshPocketIds(pockets) # <<>>
    /\ LET r == pocketCreate(pockets, categories, userId, body)
       IN /\ pockets' = r.pockets
          /\ categories' = r.cats
          /\ budgetResp' = r.resp
          /\ UNCHANGED outsidePockets

PocketsBulk ==
  \E userId \in UserIds, items \in BulkItems :
    /\ Len(FreshIds(categories)) >= Len(items)
    /\ Len(FreshPocketIds(pockets)) >= Len(items)
    /\ LET r == pocketsBulk(pockets, categories, userId, items)
       IN /\ pockets' = r.pockets
          /\ categories' = r.cats
          /\ budgetResp' = r.resp
          /\ UNCHANGED outsidePockets

\* ----------------------------------------------------------------- budget
\* PUT /budget/config and GET /budget/overview.  Money in the tables is in
\* whole units; the figures of the overview, which the code rounds to two
\* decimals, are in hundredths.  A figure is {n}, or {} when the code computes
\* NaN.  The arithmetic is exact (the code's is binary floating point).  A
\* date is the number of its month.  Pockets are ordered by id (sort_order is
\* not carried).

BudgetYear == 2026

\* Math.round(n / d) for d > 0.
Round(n, d) == (2 * n + d) \div (2 * d)

\* Math.round(x / b * 100 * 100) for b > 0, by long division.
Percent(x, b) ==
  LET q == x \div b
      r == x % b
      d1 == (r * 100) \div b
      r1 == (r * 100) % b
  IN q * 10000 + d1 * 100 + Round(r1 * 100, b)

RECURSIVE SumAmounts(_)
SumAmounts(rows) ==
  IF rows = {} THEN 0
  ELSE LET t == CHOOSE r \in rows : TRUE
       IN t.amount + SumAmounts(rows \ {t})

\* PUT /budget/config (a target of 0 stands for an absent one as well).
configPut(rows, userId, body) ==
  LET existing == Single({c \in rows : c.user_id = userId /\ c.year = body.year})
      row == [user_id |-> userId, year |-> body.year,
              annual_revenue_target |-> body.annual_revenue_target]
  IN IF body.annual_revenue_target <= 0
     THEN [config |-> rows, resp |-> BudgetAnswer("config", userId, "VALIDATION_ERROR")]
     ELSE [config |-> (rows \ existing) \cup {row},
           resp |-> BudgetAnswer("config", userId, "OK")]

\* const cat = t.category || 'Sin categoría'.
categoryKey(t) == IF t.category = NULL THEN "Sin categoría" ELSE t.category

\* expensesByCategory[name] || 0: the sum under an own key, 0 for a key the
\* object lacks, and for a key inherited from Object.prototype a function,
\* which the arithmetic turns into NaN.
actualValue(expenses, name) ==
  LET own == {t \in expenses : categoryKey(t) = name}
  IN IF own # {} THEN {SumAmounts(own) * 100}
     ELSE IF Inherited(name) = NULL THEN {0}
     ELSE {}

\* Step 6 of the overview, for one pocket.
pocketOverview(pocket, annualTarget, expenses) ==
  LET budgetValue == Round(annualTarget * pocket.percentage, 12)
      actual == actualValue(expenses, pocket.name)
      deviationAmount == {a - budgetValue : a \in actual}
      deviationPercent == IF budgetValue > 0
                          THEN {Percent(a - budgetValue, budgetValue) : a \in actual}
                          ELSE {0}
  IN [id |-> pocket.id, name |-> pocket.name, percentage |-> pocket.percentage,
      budget_value |-> {budgetValue},
      actual_value |-> actual,
      deviation_amount |-> deviationAmount,
      deviation_percent |-> deviationPercent,
      status |-> IF \E d \in deviationAmount : d > 0 THEN "over"
                 ELSE IF \E d \in deviationAmount : d < 0 THEN "under"
                 ELSE "on_track"]

\* The sales alert raised also when the sales equal the estimate.
salesAlert_orEqual(actualSales, annualTarget) ==
  IF 12 * actualSales <= annualTarget THEN <<[type |-> "warning", pocket |-> NULL]>> ELSE <<>>

\* salesDeviation < 0, with salesDeviation = actualSales - annualTarget / 12.
salesAlert(actualSales, annualTarget) ==
  IF 12 * actualSales < annualTarget THEN <<[type |-> "warning", pocket |-> NULL]>> ELSE <<>>

\* The pockets of a user in the order of the answer.
pocketsOf(rows, userId) ==
  LET Owned(id) == \E p \in rows : p.id = id /\ p.user_id = userId
      ids == SelectSeq(PocketIdSeq, Owned)
  IN [i \in 1..Len(ids) |-> CHOOSE p \in rows : p.id = ids[i]]

\* GET /budget/overview?year=&month=.
budgetOverview(configs, rows, txs, userId, year, month) ==
  LET config0 == Single({c \in configs : c.user_id = userId /\ c.year = year})
      annualTarget == IF config0 = {} THEN 0 ELSE The(config0).annual_revenue_target
      inMonth == {t \in txs : t.user_id = userId /\ t.date = month}
      actualSales == SumAmounts({t \in inMonth : t.type = "income"})
      expenses == {t \in inMonth : t.type = "expense"}
      mine == pocketsOf(rows, userId)
      overview == [i \in 1..Len(mine) |-> pocketOverview(mine[i], annualTarget, expenses)]
      IsOver(p) == p.status = "over"
      over == SelectSeq(overview, IsOver)
      pocketAlerts == [i \in 1..Len(over) |-> [type |-> "danger", pocket |-> over[i].name]]
  IN BudgetAnswer("overview", userId, "OK") @@
     [month |-> month,
      annual_revenue_target |-> annualTarget,
      monthly_estimate |-> Round(annualTarget * 100, 12),
      actual_sales |-> actualSales * 100,
      pockets |-> overview,
      alerts |-> salesAlert(actualSales, annualTarget) \o pocketAlerts]

ConfigBodies == [year : {BudgetYear}, annual_revenue_target : {0, 100, 1200000}]

Months == {1, 2}

ConfigPut ==
  \E userId \in UserIds, body \in ConfigBodies :
    LET r == configPut(budgetConfig, userId, body)
    IN /\ budgetConfig' = r.config
       /\ budgetResp' = r.resp
       /\ UNCHANGED <<subVars, txVars, catVars, pockets, notifications, deliveries>>

Overview ==
  \E userId \in UserIds, month \in Months :
    /\ budgetResp' = budgetOverview(budgetConfig, pockets, transactions, userId,
                                    BudgetYear, month)
    /\ UNCHANGED <<subVars, txVars, catVars, budgetConfig, pockets, notifications,
                   deliveries>>

\* The ledgers, pockets and configurations the overview is computed on: rows
\* the ledger and budget routes store.
BudgetTxRows ==
  {[id |-> 1, user_id |-> 1, type |-> "expense", amount |-> 650000, category |-> "Nómina",
    date |-> 1],
   [id |-> 2, user_id |-> 1, type |-> "expense", amount |-> 4, category |-> "Nómina",
    date |-> 1],
   [id |-> 3, user_id |-> 1, type |-> "expense", amount |-> 650000, category |-> NULL,
    date |-> 1],
   [id |-> 4, user_id |-> 1, type |-> "expense", amount |-> 650000, category |-> "Nómina",
    date |-> 2],
   [id |-> 5, user_id |-> 1, type |-> "income", amount |-> 100000, category |-> "Ventas",
    date |-> 1],
   [id |-> 6, user_id |-> 2, type |-> "expense", amount |-> 650000, category |-> "Nómina",
    date |-> 1]}

BudgetPocketKinds ==
  [user_id : {1}, name : {"Nómina", "Sin categoría", "constructor"}, percentage : {50}]
  \cup [user_id : {2}, name : {"Nómina"}, percentage : {50}]

BudgetPockets ==
  UNION {{{[id |-> id, user_id |-> f[id].user_id, name |-> f[id].name,
            percentage |-> f[id].percentage] : id \in D} : f \in [D -> BudgetPocketKinds]} :
         D \in SUBSET {PocketIdSeq[i] : i \in 1..Len(PocketIdSeq)}}

BudgetConfigs ==
  {rows \in SUBSET [user_id : UserIds, year : {BudgetYear},
                    annual_revenue_target : {100, 1200000}] :
     \A c, d \in rows : c.user_id = d.user_id => c = d}

CatCreate ==
  \E userId \in UserIds, body \in CatBodies :
    \E id \in CatIds \ {c.id : c \in categories} :
      LET r == catCreate(categories, userId, body, id)
      IN /\ categories' = r.cats
         /\ catResp' = r.resp
         /\ UNCHANGED <<subcategories, outsideCat>>

CatDelete ==
  \E userId \in UserIds, id \in CatIds :
    LET r == catDelete(categories, transactions, userId, id)
    IN /\ categories' = r.cats
       /\ catResp' = r.resp
       /\ UNCHANGED <<subcategories, outsideCat>>

\* POST /transactions with a body that carries a category label.
TxCreateLabelled ==
  \E userId \in UserIds, body \in LabelledBodies :
    \E id \in TxIds \ {t.id : t \in transactions} :
      LET r == txCreate(transactions, userId, body, id)
      IN /\ transactions' = r.rows
         /\ txResp' = r.resp
         /\ UNCHANGED outsideTx

TxCreate ==
  \E userId \in UserIds, body \in TxBodies :
    \E id \in TxIds \ {t.id : t \in transactions} :
      LET r == txCreate(transactions, userId, body, id)
      IN /\ transactions' = r.rows
         /\ txResp' = r.resp
         /\ UNCHANGED outsideTx

TxGet ==
  \E userId \in UserIds, id \in RequestIds :
    LET r == txGet(transactions, userId, id)
    IN /\ transactions' = r.rows
       /\ txResp' = r.resp
       /\ UNCHANGED outsideTx

TxUpdate ==
  \E userId \in UserIds, id \in RequestIds, patch \in TxPatches :
    LET r == txUpdate(transactions, userId, id, patch)
    IN /\ transactions' = r.rows
       /\ txResp' = r.resp
       /\ UNCHANGED outsideTx

\* PUT /transactions/:id with a patch that carries an amount.
TxUpdateAmount ==
  \E userId \in UserIds, id \in RequestIds, patch \in AmountPatches :
    LET r == txUpdate(transactions, userId, id, patch)
    IN /\ transactions' = r.rows
       /\ txResp' = r.resp
       /\ UNCHANGED outsideTx

TxDelete ==
  \E userId \in UserIds, id \in RequestIds :
    LET r == txDelete(transactions, userId, id)
    IN /\ transactions' = r.rows
       /\ txResp' = r.resp
       /\ UNCHANGED outsideTx

TxList ==
  \E userId \in UserIds, query \in TxQueries :
    /\ txResp' \in txList(transactions, userId, query)
    /\ UNCHANGED <<transactions, outsideTx>>

\* ----------------------------------------------------------------- actions

Configs ==
  [isDev : BOOLEAN, stripeKey : BOOLEAN, stripeWebhookSecret : BOOLEAN,
   ghlWebhookSecret : BOOLEAN]

\* Production with every secret configured.
Production ==
  [isDev |-> FALSE, stripeKey |-> TRUE, stripeWebhookSecret |-> TRUE,
   ghlWebhookSecret |-> TRUE]

\* No request has just been answered.
Idle == [op |-> "none", code |-> "OK"]

Store(db) ==
  /\ authUsers' = db.authUsers
  /\ profiles' = db.profiles
  /\ subscriptions' = db.subscriptions

\* The signatures tried for a payload: all of SignaturesFor, or the right one.
Signatures(payload, signed) ==
  IF signed THEN {Digest(payload)} ELSE SignaturesFor(payload)

\* stripeService.handleWebhookEvent on a verified event.
StripeEvent(events, faults) ==
  \E event \in events, fault \in faults :
    /\ Store(stripeHandleWebhookEvent(DB, event, fault).db)
    /\ resp' = Idle
    /\ UNCHANGED <<config, now, outsideSub>>

\* ghlService.handleWebhookEvent on a verified payload.
GhlEvent(events, faults) ==
  \E payload \in events, fault \in faults :
    /\ Store(ghlHandleWebhookEvent(DB, payload, fault).db)
    /\ resp' = Idle
    /\ UNCHANGED <<config, now, outsideSub>>

\* POST /webhooks/stripe, for the given events and faults.
StripeWebhook(events, faults, signed) ==
  \E event \in events, fault \in faults :
    \E signature \in Signatures(event, signed) :
      LET r == stripeRoute(DB, event, signature, fault)
      IN /\ Store(r.db)
         /\ resp' = r.resp
         /\ UNCHANGED <<config, now, outsideSub>>

\* POST /webhooks/gohighlevel, for the given payloads and faults.
GhlWebhook(events, faults, signed) ==
  \E payload \in events, fault \in faults :
    \E signature \in Signatures(payload, signed) :
      LET r == ghlRoute(DB, payload, signature, fault)
      IN /\ Store(r.db)
         /\ resp' = r.resp
         /\ UNCHANGED <<config, now, outsideSub>>

\* ------------------------------------------------- deliveries step by step
\* A 'subscription.created' delivery served await by await: the handler finds
\* the user, then upsertFromWebhook reads the row by external id, then writes.
\* Other deliveries may take their steps in between.  A delivery in flight is
\* [d, pc, userId, externalId, periodEnd, existing].

DeliveryIds == 1..MaxDeliveries

RaceEvents ==
  [type : {"subscription.created"}, email : {"ana@x.io"}, subscription_id : ExternalIds,
   next_billing_date : {{}}]

\* What a delivery leaves alone.
outsideDelivery ==
  <<config, now, txVars, catVars, budgetVars, notifications>>

\* handleSubscriptionCreated up to the call of upsertFromWebhook.
DeliveryStart ==
  \E data \in RaceEvents, d \in DeliveryIds \ {x.d : x \in deliveries} :
    LET f == findOrCreateUser(DB, data.email, "none")
    IN /\ Cardinality(subscriptions) + Cardinality(deliveries) < MaxRecords
       /\ Store(f.db)
       /\ deliveries' =
            IF f.kind = "profile"
            THEN deliveries \cup {[d |-> d, pc |-> "find", userId |-> The(f.user).id,
                                    externalId |-> data.subscription_id,
                                    periodEnd |-> data.next_billing_date, existing |-> {}]}
            ELSE deliveries
       /\ resp' = Idle
       /\ UNCHANGED outsideDelivery

\* The select by external_id answers.
DeliveryFind ==
  \E x \in deliveries :
    /\ x.pc = "find"
    /\ deliveries' = (deliveries \ {x}) \cup
         {[x EXCEPT !.pc = "write", !.existing = findExisting(subscriptions, x.externalId)]}
    /\ resp' = Idle
    /\ UNCHANGED <<authUsers, profiles, subscriptions, outsideDelivery>>

\* The update or the insert is done and the handler returns.
DeliveryWrite ==
  \E x \in deliveries :
    /\ x.pc = "write"
    /\ subscriptions' = writeUpsert(subscriptions, x.existing, x.userId, "gohighlevel",
                                    x.externalId, "active", x.periodEnd)
    /\ deliveries' = deliveries \ {x}
    /\ resp' = Idle
    /\ UNCHANGED <<authUsers, profiles, outsideDelivery>>

\* routes/auth.js POST /auth/register: signUp, then the upsert of the profile
\* (which leaves subscription_status alone), then the default categories.
Register ==
  \E email \in Emails :
    LET taken == \E u \in authUsers : u.email = email
        user == [id |-> Cardinality(authUsers) + 1, email |-> email,
                 created_from |-> "register"]
        seeded == initDefaultCategories(categories, subcategories, user.id)
    IN /\ IF taken
          THEN UNCHANGED <<authUsers, profiles, categories, subcategories>>
          ELSE /\ authUsers' = authUsers \cup {user}
               /\ profiles' = profiles \cup
                    {[id |-> user.id, email |-> email, subscription_status |-> NULL]}
               /\ categories' = seeded.cats
               /\ subcategories' = seeded.subs
       /\ resp' = [op |-> "register", code |-> IF taken THEN "VALIDATION_ERROR" ELSE "OK"]
       /\ UNCHANGED <<config, now, subscriptions, txVars, catResp, budgetVars,
                      notifications, deliveries>>

\* ----------------------------------------------------------- notifications
\* The notification routes.  Title, message, type and created_at are not
\* carried; the owner of a row is {} (null: a broadcast) or {user id}; limit
\* and offset of the list are left at their defaults.

NotifIds == 1..MaxNotifs

\* The value of X-Webhook-Secret (NULL: no header and no query parameter).
Secrets == {"right", "wrong", NULL}

\* The targets of a delivery: 'all', none (NULL), the e-mails users register
\* with, and one nobody registers with.
Targets == {"all", NULL} \cup Emails \cup {"zoe@x.io"}

NotifBodies == [title : {"Aviso", NULL}, target : Targets]

\* POST /notifications/webhook/ghl: the table after it and the answer.
notifyWebhook(db, rows, cfg, secret, body, id) ==
  LET profile == Single({q \in db.profiles : q.email = body.target})
      userId == IF body.target # NULL /\ body.target # "all" /\ profile # {}
                THEN {The(profile).id} ELSE {}
      row == [id |-> id, user_id |-> userId, read |-> FALSE]
      answer(code, stored, target) ==
        [op |-> "notify", code |-> code, target |-> body.target,
         notification_id |-> stored, answered |-> target]
  IN IF ~cfg.isDev /\ cfg.ghlWebhookSecret /\ secret # "right"
     THEN [rows |-> rows, resp |-> answer("UNAUTHORIZED", {}, NULL)]
     ELSE IF body.title = NULL
     THEN [rows |-> rows, resp |-> answer("VALIDATION_ERROR", {}, NULL)]
     ELSE [rows |-> rows \cup {row},
           resp |-> answer("OK", {id}, IF userId # {} THEN body.target ELSE "broadcast")]

\* GET /notifications: the rows listed for a user.
notifList(rows, userId) == {n \in rows : n.user_id = {userId} \/ n.user_id = {}}

\* PUT /notifications/:id/read.
markRead(rows, userId, id) ==
  LET notif == Single({n \in rows : n.id = id})
  IN IF notif = {}
     THEN [rows |-> rows, resp |-> [op |-> "read", user |-> userId, id |-> id,
                                    code |-> "NOT_FOUND"]]
     ELSE [rows |-> IF The(notif).user_id = {userId}
                    THEN {IF n.id = id /\ n.user_id = {userId}
                          THEN [n EXCEPT !.read = TRUE] ELSE n : n \in rows}
                    ELSE rows,
           resp |-> [op |-> "read", user |-> userId, id |-> id, code |-> "OK"]]

\* PUT /notifications/read-all.
readAll(rows, userId) ==
  {IF (n.user_id = {userId} \/ n.user_id = {}) /\ ~n.read
   THEN [n EXCEPT !.read = TRUE] ELSE n : n \in rows}

\* What a notification request leaves alone.
outsideNotif ==
  <<config, now, authUsers, profiles, subscriptions, txVars, catVars, budgetVars, deliveries>>

NotifyWebhook ==
  \E secret \in Secrets, body \in NotifBodies :
    \E id \in NotifIds \ {n.id : n \in notifications} :
      LET r == notifyWebhook(DB, notifications, config, secret, body, id)
      IN /\ notifications' = r.rows
         /\ resp' = r.resp
         /\ UNCHANGED outsideNotif

NotifList ==
  \E userId \in {u.id : u \in authUsers} :
    /\ resp' = [op |-> "notifications", user |-> userId, code |-> "OK",
                data |-> notifList(notifications, userId)]
    /\ UNCHANGED <<notifications, outsideNotif>>

MarkRead ==
  \E userId \in {u.id : u \in authUsers}, id \in NotifIds :
    LET r == markRead(notifications, userId, id)
    IN /\ notifications' = r.rows
       /\ resp' = r.resp
       /\ UNCHANGED outsideNotif

ReadAll ==
  \E userId \in {u.id : u \in authUsers} :
    /\ notifications' = readAll(notifications, userId)
    /\ resp' = [op |-> "read-all", user |-> userId, code |-> "OK"]
    /\ UNCHANGED outsideNotif

\* The caller of the gated routes and of login.
Caller == "ana@x.io"

CallerIds == {u.id : u \in {a \in authUsers : a.email = Caller}}

\* A protected route behind requireSubscription, called by the authenticated
\* caller (or by nobody).
Gate ==
  \E user \in {{id} : id \in CallerIds} \cup {{}} :
    /\ resp' = [op |-> "requireSubscription", user |-> user,
                code |-> requireSubscription(DB, now, user).code]
    /\ UNCHANGED <<config, now, authUsers, profiles, subscriptions, outsideSub>>

\* A protected route behind requireSubscriptionOrDev (the ledger, categories,
\* dashboard), called by the authenticated caller.
GateOrDev ==
  \E user \in {{id} : id \in CallerIds} :
    LET r == requireSubscriptionOrDev(DB, now, user)
    IN /\ resp' = [op |-> "requireSubscriptionOrDev", user |-> user,
                   code |-> r.code, subscription |-> r.subscription]
       /\ UNCHANGED <<config, now, authUsers, profiles, subscriptions, outsideSub>>

\* The subscription check of POST /auth/login and GET /auth/me in production.
Login ==
  \E userId \in CallerIds :
    /\ ~config.isDev
    /\ resp' = [op |-> "getActive", user |-> {userId},
                code |-> IF getActive(DB, userId) = {}
                         THEN "SUBSCRIPTION_INACTIVE" ELSE "OK"]
    /\ UNCHANGED <<config, now, authUsers, profiles, subscriptions, outsideSub>>

\* Time passes.
Tick ==
  /\ now < MaxTime
  /\ now' = now + 1
  /\ resp' = Idle
  /\ UNCHANGED <<config, authUsers, profiles, subscriptions, outsideSub>>

InitSub(configs) ==
  /\ config \in configs
  /\ now = 0
  /\ authUsers = {}
  /\ profiles = {}
  /\ subscriptions = {}
  /\ resp = Idle

InitTx ==
  /\ transactions = {}
  /\ txResp = TxAnswer("none", 0, 0, "OK", {}, <<>>)
  /\ categories = {}
  /\ catResp = CatAnswer("none", 0, "none", "OK", 0)
  /\ subcategories = {}
  /\ budgetConfig = {}
  /\ pockets = {}
  /\ budgetResp = [op |-> "none", code |-> "OK"]
  /\ notifications = {}
  /\ deliveries = {}

\* --------------------------------------------------------- specifications

\* SpecGate: subscription resolution over the profiles and subscription rows
\* the webhook events can leave, in production, as time passes.
GateStripeEvents ==
  [type : {"checkout.session.completed"}, customer_email : Emails, details_email : {NULL}]
  \cup [type : {"customer.subscription.deleted"}, id : {"sub_1"},
        customer : {"cus_ana", "cus_bob"}]

GateGhlEvents ==
  [type : {"subscription.created"}, email : Emails, subscription_id : ExternalIds,
   next_billing_date : BillingDates]
  \cup [type : {"subscription.updated"}, subscription_id : ExternalIds,
        status : {"active", "paused"}, next_billing_date : BillingDates]
  \cup [type : {"subscription.cancelled"}, subscription_id : ExternalIds]
  \cup [type : {"payment.succeeded", "payment.failed"}, subscription_id : ExternalIds]

GateStripe == StripeEvent(GateStripeEvents, {"none"})

GateGhl == GhlEvent(GateGhlEvents, {"none"})

InitGate == InitSub({Production}) /\ InitTx

NextGate ==
  \/ GateStripe
  \/ GateGhl
  \/ Register
  \/ Gate
  \/ Login
  \/ Tick

SpecGate == InitGate /\ [][NextGate]_vars

\* SpecRoutes: the two webhook routes under every configuration, with every
\* kind of signature, over events that succeed, fail, throw or are unknown.
RouteStripeEvents ==
  [type : {"checkout.session.completed"}, customer_email : {"ana@x.io", NULL},
   details_email : {NULL}]
  \cup [type : {"customer.subscription.deleted"}, id : {"sub_1"}, customer : {"cus_ana"}]
  \cup NoData({"invoice.paid"})
  \cup [type : {"charge.refunded"}]

RouteGhlEvents ==
  [type : {"subscription.created"}, email : {"ana@x.io", NULL},
   subscription_id : {"sub_1"}, next_billing_date : {{}}]
  \cup [type : {"subscription.cancelled"}, subscription_id : {"sub_1"}]
  \cup NoData({"payment.failed"})
  \cup [type : {"contact.created"}]

\* The deliveries of SpecRoutes meet no fault or a database refusing writes.
RouteFaults == {"none", "write"}

RouteStripe == StripeWebhook(RouteStripeEvents, RouteFaults, FALSE)

RouteGhl == GhlWebhook(RouteGhlEvents, RouteFaults, FALSE)

InitRoutes == InitSub(Configs) /\ InitTx

NextRoutes ==
  \/ RouteStripe
  \/ RouteGhl
  \/ Register

SpecRoutes == InitRoutes /\ [][NextRoutes]_vars

\* SpecStripe: signed deliveries to POST /webhooks/stripe in production, and
\* redeliveries of them, next to registrations and the CRM events that fill
\* table subscriptions.
FlowStripeEvents ==
  [type : {"checkout.session.completed"}, customer_email : EmailsOrNull,
   details_email : {"bob@x.io", NULL}]
  \cup [type : {"invoice.paid"}, customer_email : {"ana@x.io", NULL},
        customer : {"cus_bob", "cus_gone", NULL}]
  \cup [type : {"customer.subscription.updated"},
        id : ExternalIds, customer : {"cus_ana", "cus_gone"},
        status : {"active", "canceled", "paused"}]
  \cup [type : {"customer.subscription.deleted"}, id : {"sub_1"}, customer : {"cus_bob"}]
  \cup [type : {"invoice.payment_failed"}, customer_email : {NULL}, customer : {"cus_ana"},
        subscription : {"sub_1"}]

FlowGhlEvents ==
  [type : {"subscription.created"}, email : {"ana@x.io"}, subscription_id : ExternalIds,
   next_billing_date : {{BillingDate}}]
  \cup [type : {"subscription.cancelled"}, subscription_id : ExternalIds]

\* The deliveries of SpecStripe meet no fault, the auth API down, or a database
\* refusing writes.
FlowFaults == {"none", "auth", "write"}

FlowStripe == StripeWebhook(FlowStripeEvents, FlowFaults, TRUE)

FlowGhl == GhlWebhook(FlowGhlEvents, {"none"}, TRUE)

InitStripe == InitSub({Production}) /\ InitTx

NextStripe ==
  \/ FlowStripe
  \/ FlowGhl
  \/ Register

SpecStripe == InitStripe /\ [][NextStripe]_vars

\* SpecDev: the gate of the protected routes in development and in production,
\* over the profiles and rows the webhook events leave for the caller.
Development ==
  [isDev |-> TRUE, stripeKey |-> FALSE, stripeWebhookSecret |-> FALSE,
   ghlWebhookSecret |-> FALSE]

DevStripeEvents ==
  [type : {"checkout.session.completed"}, customer_email : {Caller}, details_email : {NULL}]
  \cup [type : {"customer.subscription.deleted"}, id : {"sub_1"}, customer : {"cus_ana"}]

DevGhlEvents ==
  [type : {"subscription.created"}, email : {Caller}, subscription_id : ExternalIds,
   next_billing_date : BillingDates]
  \cup [type : {"subscription.cancelled"}, subscription_id : ExternalIds]

DevStripe == StripeEvent(DevStripeEvents, {"none"})

DevGhl == GhlEvent(DevGhlEvents, {"none"})

InitDev == InitSub({Production, Development}) /\ InitTx

NextDev ==
  \/ DevStripe
  \/ DevGhl
  \/ Register
  \/ GateOrDev
  \/ Tick

SpecDev == InitDev /\ [][NextDev]_vars

\* SpecTx: the ledger routes called by two users.
InitLedger == InitSub({Production}) /\ InitTx

NextTx ==
  \/ TxCreate
  \/ TxGet
  \/ TxUpdate
  \/ TxDelete
  \/ TxList

SpecTx == InitLedger /\ [][NextTx]_vars

\* SpecCat: categories created and deleted while labelled transactions come
\* and go, by two users.
NextCat ==
  \/ CatCreate
  \/ CatDelete
  \/ TxCreateLabelled
  \/ TxDelete

SpecCat == InitLedger /\ [][NextCat]_vars

\* SpecCatalog: categories created, renamed and seeded next to pockets created,
\* by two users.
NextCatalog ==
  \/ CatalogCreate
  \/ CatUpdate
  \/ CatInit
  \/ CatList
  \/ PocketCreate

SpecCatalog == InitLedger /\ [][NextCatalog]_vars

\* SpecPockets: pockets created one by one and in bulk, next to the seeding and
\* the renaming of categories, by two users.
NextPockets ==
  \/ PocketCreate
  \/ PocketsBulk
  \/ CatUpdate
  \/ CatInit

SpecPockets == InitLedger /\ [][NextPockets]_vars

\* SpecBudget: the overview computed, and the configuration written, on the
\* ledgers, pockets and configurations of two users.
InitBudget ==
  /\ InitSub({Production})
  /\ transactions \in {rows \in SUBSET BudgetTxRows : Cardinality(rows) <= MaxTx}
  /\ txResp = TxAnswer("none", 0, 0, "OK", {}, <<>>)
  /\ categories = {}
  /\ catResp = CatAnswer("none", 0, "none", "OK", 0)
  /\ subcategories = {}
  /\ budgetConfig \in BudgetConfigs
  /\ pockets \in BudgetPockets
  /\ budgetResp = [op |-> "none", code |-> "OK"]
  /\ notifications = {}
  /\ deliveries = {}

NextBudget ==
  \/ Overview
  \/ ConfigPut

SpecBudget == InitBudget /\ [][NextBudget]_vars

\* SpecNotify: notifications delivered by the CRM, listed and marked as read by
\* the users who registered, in production.
NextNotify ==
  \/ Register
  \/ NotifyWebhook
  \/ NotifList
  \/ MarkRead
  \/ ReadAll

SpecNotify == InitLedger /\ [][NextNotify]_vars

\* SpecRace: 'subscription.created' deliveries for a registered user, several
\* of them served at the same time.
NextRace ==
  \/ Register
  \/ DeliveryStart
  \/ DeliveryFind
  \/ DeliveryWrite

SpecRace == InitLedger /\ [][NextRace]_vars

\* SpecAmount: creates, and updates that carry an amount, by two users.
NextAmount ==
  \/ TxCreate
  \/ TxUpdateAmount
  \/ TxGet
  \/ TxDelete

SpecAmount == InitLedger /\ [][NextAmount]_vars

\* ------------------------------------------------- subscription resolution

FlagActive(userId) ==
  \E p \in profiles : p.id = userId /\ p.subscription_status = "active"

Expired(s) == \E endDate \in s.current_period_end : endDate < now

RowsOf(userId) == {s \in subscriptions : s.user_id = userId}

\* C1: a user whose profile flag reads 'active' is resolved as active by the
\* gate and by getActive, with the subscription synthesized from the profile
\* (provider 'ghl_webhook'), whatever rows table subscriptions holds for the
\* user and whether or not their period has ended.
C1_FlagWins ==
  \A p \in profiles :
    p.subscription_status = "active" =>
      /\ requireSubscription(DB, now, {p.id})
           = [code |-> "next", subscription |-> {ProfileSubscription(p)}]
      /\ getActive(DB, p.id) = {ProfileSubscription(p)}
      /\ ProfileSubscription(p).provider = "ghl_webhook"

\* The gate has just let the caller through on the profile flag while the
\* caller's only rows are an 'active' one whose period has ended and a
\* 'cancelled' one.
C1_Witness ==
  /\ resp.op = "requireSubscription"
  /\ resp.code = "next"
  /\ \E id \in resp.user :
       /\ FlagActive(id)
       /\ \E s \in RowsOf(id) : s.status = "active" /\ Expired(s)
       /\ \E s \in RowsOf(id) : s.status = "cancelled"
       /\ \A s \in RowsOf(id) : s.status = "cancelled" \/ Expired(s)

\* C2: a user whose profile flag is not 'active' and who has an 'active' row
\* whose current_period_end is in the past is resolved as not active: the gate
\* answers SUBSCRIPTION_INACTIVE and getActive returns no subscription.
C2_ExpiredIsInactive ==
  \A p \in profiles :
    (/\ p.subscription_status # "active"
     /\ \E s \in RowsOf(p.id) : s.status = "active" /\ Expired(s))
    => /\ requireSubscription(DB, now, {p.id}).code = "SUBSCRIPTION_INACTIVE"
       /\ getActive(DB, p.id) = {}

\* C3: in production the gate lets a user through whenever the profile flag is
\* 'active' or some row of the user is 'active' and not expired, however many
\* rows the user has.
C3_AnyActiveRowGrants ==
  ~config.isDev =>
    \A p \in profiles :
      (FlagActive(p.id) \/ \E s \in RowsOf(p.id) : s.status = "active" /\ ~Expired(s))
      => requireSubscription(DB, now, {p.id}).code = "next"


\* ------------------------------------------------------------------ ledger

\* C4: for every stored transaction and every user other than its owner, that
\* user's fetch-one, update (with any patch) and delete of the transaction's id
\* answer NOT_FOUND, return no row and leave the table as it is, and no page of
\* that user's list, under any query, contains the transaction.
C4_OwnershipIsolation ==
  \A t \in transactions :
    \A A \in UserIds \ {t.user_id} :
      /\ txGet(transactions, A, t.id)
           = [rows |-> transactions,
              resp |-> TxAnswer("get", A, t.id, "NOT_FOUND", {}, <<>>)]
      /\ \A patch \in TxPatches :
           txUpdate(transactions, A, t.id, patch)
             = [rows |-> transactions,
                resp |-> TxAnswer("update", A, t.id, "NOT_FOUND", {}, <<>>)]
      /\ txDelete(transactions, A, t.id)
           = [rows |-> transactions,
              resp |-> TxAnswer("delete", A, t.id, "NOT_FOUND", {}, <<>>)]
      /\ \A query \in TxQueries :
           \A answer \in txList(transactions, A, query) :
             \A i \in DOMAIN answer.transactions :
               answer.transactions[i].user_id = A

\* A user who has a transaction of their own has just been told NOT_FOUND for
\* the delete of a stored transaction that belongs to the other user.
C4_Witness ==
  /\ txResp.op = "delete"
  /\ txResp.code = "NOT_FOUND"
  /\ \E t \in transactions : t.id = txResp.id /\ t.user_id # txResp.user
  /\ \E t \in transactions : t.user_id = txResp.user

\* ---------------------------------------------------------- webhook routes

\* C5 as stated: POST /webhooks/stripe processes an event only when its
\* signature verified, or in development mode, or when no webhook secret is
\* configured; in the last two cases the event is processed whatever the
\* signature header, also when it is absent; a request that is not processed is
\* answered UNAUTHORIZED and changes no stored state.
C5_SkippedAlsoWithoutHeader ==
  \A event \in RouteStripeEvents, fault \in RouteFaults :
    \A signature \in SignaturesFor(event) :
      LET r == stripeRoute(DB, event, signature, fault)
      IN /\ r.resp.processed =>
              \/ config.isDev
              \/ ~config.stripeWebhookSecret
              \/ signature = Digest(event)
         /\ (config.isDev \/ ~config.stripeWebhookSecret) =>
              r.resp.processed /\ r.resp.code = "OK"
         /\ ~r.resp.processed => r.resp.code = "UNAUTHORIZED" /\ r.db = DB

\* C5 amended: POST /webhooks/stripe processes an event only when its signature
\* verified, or in development mode, or in production without a webhook secret
\* when the request carries a signature header.  In development mode every
\* request is processed, with or without the header; in production a request
\* without the header is answered UNAUTHORIZED even when no secret is
\* configured, and without a secret any present header is accepted unverified.
\* A request failing verification is answered UNAUTHORIZED and changes no
\* stored state.
C5_SignatureRule ==
  \A event \in RouteStripeEvents, fault \in RouteFaults :
    \A signature \in SignaturesFor(event) :
      LET r == stripeRoute(DB, event, signature, fault)
          verified == config.stripeKey /\ signature = Digest(event)
      IN /\ r.resp.processed =>
              \/ config.isDev
              \/ ~config.stripeWebhookSecret /\ signature # <<>>
              \/ config.stripeWebhookSecret /\ verified
         /\ config.isDev => r.resp.processed /\ r.resp.code = "OK"
         /\ (~config.isDev /\ ~config.stripeWebhookSecret /\ signature # <<>>) =>
              r.resp.processed /\ r.resp.code = "OK"
         /\ (~config.isDev /\ config.stripeWebhookSecret /\ verified) =>
              r.resp.processed /\ r.resp.code = "OK"
         /\ (~config.isDev /\ signature = <<>>) => r.resp.code = "UNAUTHORIZED"
         /\ (~config.isDev /\ config.stripeWebhookSecret /\ ~verified) =>
              r.resp.code = "UNAUTHORIZED"
         /\ r.resp.code = "UNAUTHORIZED" => ~r.resp.processed /\ r.db = DB
         /\ r.resp.code \in {"OK", "UNAUTHORIZED"}

\* In production with the secret configured, a delivery with a signature of the
\* right length and the wrong value has just been refused while a profile
\* activated by an earlier, verified delivery is stored.
C5_Witness ==
  /\ resp.op = "stripe"
  /\ resp.code = "UNAUTHORIZED"
  /\ resp.sig = "wrong_value"
  /\ ~config.isDev /\ config.stripeWebhookSecret /\ config.stripeKey
  /\ \E p \in profiles : p.subscription_status = "active"

\* C6: in production with a CRM webhook secret configured, a request to POST
\* /webhooks/gohighlevel whose signature is not the expected HMAC (wrong value,
\* wrong length, or no header) is answered UNAUTHORIZED, is not acknowledged as
\* received, and its event is not processed.
C6_BadSignatureRejected ==
  (~config.isDev /\ config.ghlWebhookSecret) =>
    \A payload \in RouteGhlEvents, fault \in RouteFaults :
      \A signature \in SignaturesFor(payload) \ {Digest(payload)} :
        LET r == ghlRoute(DB, payload, signature, fault)
        IN /\ r.resp.code = "UNAUTHORIZED"
           /\ ~r.resp.received
           /\ ~r.resp.processed
           /\ r.db = DB

\* The deliveries each route lets through its signature step (passed or skipped).
StripeAccepted(event, signature) ==
  \/ config.isDev
  \/ signature # <<>> /\ ~config.stripeWebhookSecret
  \/ signature # <<>> /\ config.stripeKey /\ signature = Digest(event)

GhlAccepted(payload, signature) ==
  \/ config.isDev
  \/ ~config.ghlWebhookSecret
  \/ signature = Digest(payload)

\* C7: a webhook delivery (stripe or CRM) that passes or skips the signature
\* check is answered with the success envelope and received = true whatever the
\* handler does (unknown type, missing e-mail, failing platform call, thrown
\* exception); a response that is not a success is UNAUTHORIZED, for a delivery
\* whose signature failed or is missing, and nothing else.
C7_AlwaysReceived ==
  /\ \A event \in RouteStripeEvents, fault \in RouteFaults :
       \A signature \in SignaturesFor(event) :
         LET r == stripeRoute(DB, event, signature, fault)
         IN /\ StripeAccepted(event, signature) =>
                 r.resp.code = "OK" /\ r.resp.received /\ r.resp.processed
            /\ r.resp.code # "OK" =>
                 /\ r.resp.code = "UNAUTHORIZED"
                 /\ ~StripeAccepted(event, signature)
  /\ \A payload \in RouteGhlEvents, fault \in RouteFaults :
       \A signature \in SignaturesFor(payload) :
         LET r == ghlRoute(DB, payload, signature, fault)
         IN /\ GhlAccepted(payload, signature) =>
                 r.resp.code = "OK" /\ r.resp.received /\ r.resp.processed
            /\ r.resp.code # "OK" =>
                 /\ r.resp.code = "UNAUTHORIZED"
                 /\ ~GhlAccepted(payload, signature)

\* A verified delivery whose handler threw has just been acknowledged.
C7_Witness ==
  /\ resp.op \in {"stripe", "ghl"}
  /\ resp.sig = "valid"
  /\ ~config.isDev
  /\ resp.processed
  /\ resp.error
  /\ resp.result = "thrown"
  /\ resp.code = "OK"
  /\ resp.received

\* ----------------------------------------------------------- stripe events

FlowUpdates == {e \in FlowStripeEvents : e.type = "customer.subscription.updated"}

FastPath ==
  {e \in FlowStripeEvents : e.type \in {"checkout.session.completed", "invoice.paid"}}

\* The stores after a signed delivery of `event` to POST /webhooks/stripe.
Delivered(db, event) == stripeRoute(db, event, Digest(event), "none").db

RowsWith(db, externalId) == {s \in db.subscriptions : s.external_id = externalId}

\* C8: delivering the same 'customer.subscription.updated' event twice in a row
\* leaves exactly one row of table subscriptions with the event's subscription
\* id, carrying the status of the payload, and the stores after the second
\* delivery equal those after the first.
C8_UpdateTwiceOneRecord ==
  \A event \in FlowUpdates :
    LET once == Delivered(DB, event)
        twice == Delivered(once, event)
    IN /\ Cardinality(RowsWith(twice, event.id)) = 1
       /\ \A s \in RowsWith(twice, event.id) : s.status = statusMap(event.status)
       /\ twice = once

\* C9: an e-mail never has more than one identity or more than one profile;
\* a 'checkout.session.completed' or 'invoice.paid' event delivered again after
\* a delivery that succeeded finds the user of the first delivery (same id, not
\* new) and provisions nothing, whatever fault short of the auth API being down
\* the second delivery meets; and findOrCreateUser never adds an identity.
C9_NoDuplicateIdentity ==
  /\ \A email \in Emails :
       /\ Cardinality({u \in authUsers : u.email = email}) <= 1
       /\ Cardinality({q \in profiles : q.email = email}) <= 1
  /\ \A event \in FastPath, first \in FlowFaults, second \in Faults \ {"auth"} :
       LET one == stripeHandleWebhookEvent(DB, event, first)
           two == stripeHandleWebhookEvent(one.db, event, second)
       IN one.result.tag = "success" =>
            /\ two.result.tag = "success"
            /\ two.result.isNew = "no"
            /\ two.result.userId = one.result.userId
            /\ two.db.authUsers = one.db.authUsers
            /\ \A email \in Emails :
                 Cardinality({q \in two.db.profiles : q.email = email}) <= 1
  /\ \A email \in Emails, fault \in Faults :
       findOrCreateUser(DB, email, fault).db.authUsers = authUsers

\* A delivery has just found the user an earlier delivery provisioned.
C9_Witness ==
  /\ resp.op = "stripe"
  /\ resp.result = "success"
  /\ resp.isNew = "no"
  /\ \E u \in authUsers : u.id \in resp.userId /\ u.created_from = "stripe_webhook"
  /\ \A email \in Emails : Cardinality({u \in authUsers : u.email = email}) = 1

FlowDeletes == {e \in FlowStripeEvents : e.type = "customer.subscription.deleted"}

FlowCancels == {e \in FlowGhlEvents : e.type = "subscription.cancelled"}

\* C11: after a 'customer.subscription.deleted' event of the payment provider
\* (and after a CRM 'subscription.cancelled' event), every row of table
\* subscriptions with the event's subscription id has status 'cancelled'.
C11_DeletedCancelsRecord ==
  /\ \A event \in FlowDeletes :
       \A s \in RowsWith(stripeHandleWebhookEvent(DB, event, "none").db, event.id) :
         s.status = "cancelled"
  /\ \A payload \in FlowCancels :
       \A s \in RowsWith(ghlHandleWebhookEvent(DB, payload, "none").db,
                         payload.subscription_id) :
         s.status = "cancelled"

FlowPaymentFailures == {e \in FlowStripeEvents : e.type = "invoice.payment_failed"}

GatePaymentFailures == {e \in GateGhlEvents : e.type = "payment.failed"}

\* C12: after an 'invoice.payment_failed' event of the payment provider (and
\* after a CRM 'payment.failed' event), every row of table subscriptions with
\* the subscription id the event names has status 'past_due', and no row that
\* was not 'cancelled' before is 'cancelled' after.
C12_PaymentFailedPastDue ==
  /\ \A event \in FlowPaymentFailures :
       LET after == stripeHandleWebhookEvent(DB, event, "none").db
       IN /\ \A s \in RowsWith(after, event.subscription) : s.status = "past_due"
          /\ \A s \in after.subscriptions :
               s.status = "cancelled" =>
                 \E old \in subscriptions : old.id = s.id /\ old.status = "cancelled"
  /\ \A payload \in GatePaymentFailures :
       LET after == ghlHandleWebhookEvent(DB, payload, "none").db
       IN /\ \A s \in RowsWith(after, payload.subscription_id) : s.status = "past_due"
          /\ \A s \in after.subscriptions :
               s.status = "cancelled" =>
                 \E old \in subscriptions : old.id = s.id /\ old.status = "cancelled"

\* The moves of a record's status along none -> active -> {past_due <-> active}
\* -> cancelled.  The status 'inactive', which the lifecycle does not name, is
\* not judged, except that it is no way out of 'cancelled'.
LifecycleMove(old, new) ==
  \/ new = old
  \/ old = "inactive"
  \/ new = "inactive" /\ old # "cancelled"
  \/ old = "active" /\ new \in {"past_due", "cancelled"}
  \/ old = "past_due" /\ new \in {"active", "cancelled"}

\* C13: in every step, a row that enters table subscriptions enters as
\* 'active', and the status of a row that stays moves only along the lifecycle:
\* a 'cancelled' row never becomes 'active' or 'past_due' again.
C13_StatusLifecycle ==
  [][/\ \A new \in subscriptions' :
          (\A old \in subscriptions : old.id # new.id) => new.status = "active"
     /\ \A old \in subscriptions, new \in subscriptions' :
          new.id = old.id => LifecycleMove(old.status, new.status)]_vars

\* ------------------------------------------------------ CRM status mapping

RecordStatuses == {"active", "inactive", "cancelled", "past_due"}

\* C14: mapStatus sends active to active, cancelled and canceled to cancelled,
\* past_due and unpaid to past_due, paused to inactive, whatever the case of
\* the letters, and every other or missing value to inactive; so the status a
\* CRM 'subscription.updated' event leaves on a row is one of active, inactive,
\* cancelled, past_due.
C14_MapStatus ==
  /\ \A ghlStatus \in GhlStatuses :
       LET key == IF ghlStatus = NULL THEN NULL ELSE toLowerCase(ghlStatus)
       IN /\ key = "active" => mapStatus(ghlStatus) = "active"
          /\ key \in {"cancelled", "canceled"} => mapStatus(ghlStatus) = "cancelled"
          /\ key \in {"past_due", "unpaid"} => mapStatus(ghlStatus) = "past_due"
          /\ key \notin {"active", "cancelled", "canceled", "past_due", "unpaid"} =>
               mapStatus(ghlStatus) = "inactive"
          /\ mapStatus(ghlStatus) \in RecordStatuses
  /\ \A ghlStatus \in GhlStatuses, externalId \in ExternalIds, date \in BillingDates :
       LET data == [type |-> "subscription.updated", subscription_id |-> externalId,
                    status |-> ghlStatus, next_billing_date |-> date]
       IN \A s \in RowsWith(handleSubscriptionUpdated(DB, data, "none").db, externalId) :
            s.status \in RecordStatuses

\* ------------------------------------------------------------ CRM creation

GateCreations ==
  {e \in GateGhlEvents : e.type \in {"order.completed", "subscription.created"}}

\* C15: after a CRM 'subscription.created' (or 'order.completed') event that
\* carries an e-mail, a user with that e-mail exists (found, or provisioned when
\* there was none) and table subscriptions holds an 'active' row of that user
\* with the event's subscription id; also for an e-mail that had neither a
\* profile nor an identity.
C15_CreatedProvisionsUser ==
  \A payload \in GateCreations :
    LET after == ghlHandleWebhookEvent(DB, payload, "none").db
    IN \E q \in after.profiles :
         /\ q.email = payload.email
         /\ \E s \in RowsWith(after, payload.subscription_id) :
              s.user_id = q.id /\ s.status = "active"

\* -------------------------------------------------------- development mode

\* C16: in development mode requireSubscriptionOrDev lets every request
\* through with the subscription {id 'dev-subscription', status 'active',
\* provider 'development'}, whatever the profiles and rows hold; in production
\* its answer is that of requireSubscription, and the development subscription
\* is never attached.
C16_DevBypass ==
  \A user \in {{}} \cup {{u.id} : u \in authUsers} :
    LET r == requireSubscriptionOrDev(DB, now, user)
    IN /\ config.isDev =>
            /\ r = [code |-> "next", subscription |-> {DevSubscription}]
            /\ DevSubscription
                 = [id |-> <<"dev-subscription">>, status |-> "active",
                    provider |-> "development"]
       /\ ~config.isDev =>
            /\ r = requireSubscription(DB, now, user)
            /\ DevSubscription \notin r.subscription

\* In development mode the caller has just been let through with the
\* development subscription although requireSubscription would have refused:
\* the profile flag is not 'active' and the caller's only row has expired.
C16_Witness ==
  /\ config.isDev
  /\ resp.op = "requireSubscriptionOrDev"
  /\ resp.code = "next"
  /\ resp.subscription = {DevSubscription}
  /\ requireSubscription(DB, now, resp.user).code = "SUBSCRIPTION_INACTIVE"
  /\ \E id \in resp.user : \E s \in RowsOf(id) : s.status = "active" /\ Expired(s)

\* -------------------------------------------------------------- pagination

\* The queries whose page and limit are numbers.
NumericQueries ==
  {q \in TxQueries :
     /\ q.page # NULL /\ parseInt(q.page) # {}
     /\ q.limit # NULL /\ parseInt(q.limit) # {}}

\* The rows of `matches` that sort strictly before t, and not after t.
Before(matches, t, order) ==
  {m \in matches : IF order = "asc" THEN m.date < t.date ELSE m.date > t.date}

NotAfter(matches, t, order) ==
  {m \in matches : IF order = "asc" THEN m.date <= t.date ELSE m.date >= t.date}

\* C17: for every numeric page and limit requested from GET /transactions the
\* answer reports page max(1, page) and limit min(100, max(1, limit)) (limit
\* 1000 gives 100, page 0 gives 1), and its rows are the window of at most
\* limit rows at offset (page - 1) * limit of the caller's filtered rows in
\* the requested order: as many rows as the window has, no row twice, each row
\* at the rank its date gives it.
C17_PaginationWindow ==
  \A userId \in UserIds, query \in NumericQueries :
    \A answer \in txList(transactions, userId, query) :
      LET page == Max(1, The(parseInt(query.page)))
          limit == Min(100, Max(1, The(parseInt(query.limit))))
          offset == (page - 1) * limit
          matches == Matches(transactions, userId, query)
          rows == answer.transactions
      IN /\ answer.code = "OK"
         /\ answer.pagination.page = page
         /\ answer.pagination.limit = limit
         /\ query.limit = "1000" => answer.pagination.limit = 100
         /\ query.page = "0" => answer.pagination.page = 1
         /\ answer.pagination.total = Cardinality(matches)
         /\ Len(rows) = Max(0, Min(limit, Cardinality(matches) - offset))
         /\ \A i, j \in DOMAIN rows : i # j => rows[i] # rows[j]
         /\ \A i \in DOMAIN rows :
              /\ rows[i] \in matches
              /\ Cardinality(Before(matches, rows[i], query.order)) <= offset + i - 1
              /\ Cardinality(NotAfter(matches, rows[i], query.order)) >= offset + i

\* The list has just answered page 2 with limit 1 of a caller who has two
\* transactions of different dates: the window is the second row alone.
C17_Witness ==
  /\ txResp.op = "list"
  /\ txResp.code = "OK"
  /\ txResp.pagination.page = 2
  /\ txResp.pagination.limit = 1
  /\ txResp.pagination.total = 2
  /\ Len(txResp.transactions) = 1
  /\ \E t \in transactions :
       /\ t.user_id = txResp.user
       /\ t.date # txResp.transactions[1].date

\* ----------------------------------------------------------------- updates

\* The patches with no effective field: no amount, no date (absent or empty)
\* and no type or a type outside the vocabulary.
EmptyPatches ==
  {patch \in TxPatches \cup AmountPatches :
     /\ patch.type \notin TxTypes /\ patch.amount = {}
     /\ patch.category = {} /\ patch.date = {}}

\* C18: PUT /transactions/:id by the owner with a patch that has no effective
\* field is answered VALIDATION_ERROR and leaves the table as it is.
C18_EmptyPatchRejected ==
  \A t \in transactions, patch \in EmptyPatches :
    txUpdate(transactions, t.user_id, t.id, patch)
      = [rows |-> transactions,
         resp |-> TxAnswer("update", t.user_id, t.id, "VALIDATION_ERROR", {}, <<>>)]

\* The owner's update of a stored transaction has just been refused as invalid.
C18_Witness ==
  /\ txResp.op = "update"
  /\ txResp.code = "VALIDATION_ERROR"
  /\ \E t \in transactions : t.id = txResp.id /\ t.user_id = txResp.user

\* C19: every stored transaction has an amount above zero and a type among
\* income, expense, transfer.
C19_StoredAmountPositive ==
  \A t \in transactions : t.amount > 0 /\ t.type \in TxTypes

\* ------------------------------------------------------- category deletion

C21_UniqueNameType ==
  \A c, d \in categories :
    (c.user_id = d.user_id /\ c.name = d.name /\ c.type = d.type) => c = d


\* ----------------------------------------------------------------- seeding

\* The defaults a user lacks, by type and lower-cased name.
MissingDefaults(userId) ==
  {d \in {DEFAULT_CATEGORIES[i] : i \in 1..Len(DEFAULT_CATEGORIES)} :
     \A c \in categories :
       c.user_id = userId => ~(c.type = d.type /\ toLowerCase(c.name) = toLowerCase(d.name))}

Answered(answer) ==
  IF answer.op = "pocket" THEN {answer.pocket}
  ELSE {answer.pockets[i] : i \in 1..Len(answer.pockets)}

\* C25: after a successful pocket creation or bulk update, every pocket it
\* created or updated has an expense category of the same user with exactly
\* the pocket's name, and a category is inserted only when the user had no
\* expense category of that name.
C25_PocketCategoryIfNone ==
  [][(pockets' # pockets /\ budgetResp'.op \in {"pocket", "bulk"} /\ budgetResp'.code = "OK")
       => /\ \A p \in Answered(budgetResp') :
               \E c \in categories' :
                 c.user_id = p.user_id /\ c.name = p.name /\ c.type = "expense"
          /\ \A c \in categories' \ categories :
               ~\E d \in categories :
                  d.user_id = c.user_id /\ d.name = c.name /\ d.type = "expense"]_vars


\* ------------------------------------------------------------------ budget

\* The annual target of a user (0 without a configuration).
TargetOf(userId) ==
  IF \E c \in budgetConfig : c.user_id = userId
  THEN (CHOOSE c \in budgetConfig : c.user_id = userId).annual_revenue_target
  ELSE 0

\* The month's expense transactions of a user whose category is a given name.
SpentOn(userId, month, name) ==
  {t \in transactions : /\ t.user_id = userId /\ t.date = month
                        /\ t.type = "expense" /\ t.category = name}

\* C23: in every overview, monthly_estimate is the annual target / 12 (0
\* without a configuration), and for every pocket budget_value is
\* monthly_estimate * percentage / 100 rounded to two decimals, actual_value
\* the month's total of the user's expense transactions whose category equals
\* the pocket's name (0 if none), deviation_amount their difference,
\* deviation_percent 0 when budget_value is 0, and status over / under /
\* on_track by the sign of deviation_amount.
C23_PocketFigures ==
  \A userId \in UserIds, month \in Months :
    LET o == budgetOverview(budgetConfig, pockets, transactions, userId, BudgetYear, month)
    IN /\ o.monthly_estimate = Round(TargetOf(userId) * 100, 12)
       /\ \A i \in DOMAIN o.pockets :
            LET p == o.pockets[i]
                budget == Round(TargetOf(userId) * p.percentage, 12)
                actual == 100 * SumAmounts(SpentOn(userId, month, p.name))
            IN /\ p.budget_value = {budget}
               /\ p.actual_value = {actual}
               /\ p.deviation_amount = {actual - budget}
               /\ (budget = 0 => p.deviation_percent = {0})
               /\ p.status = IF actual > budget THEN "over"
                             ELSE IF actual < budget THEN "under" ELSE "on_track"


\* The month's income of a user.
IncomeOf(userId, month) ==
  SumAmounts({t \in transactions :
                t.user_id = userId /\ t.date = month /\ t.type = "income"})

\* C24: the alerts of an overview are one warning when and only when the
\* month's income is strictly below the monthly estimate, followed by one alert
\* for each pocket whose status is over, in the order of the pockets, and
\* nothing else.
C24_AlertsExactly ==
  \A userId \in UserIds, month \in Months :
    LET o == budgetOverview(budgetConfig, pockets, transactions, userId, BudgetYear, month)
        warnings == {i \in DOMAIN o.alerts : o.alerts[i].type = "warning"}
        dangers == {i \in DOMAIN o.alerts : o.alerts[i].type = "danger"}
        overPockets == {i \in DOMAIN o.pockets : o.pockets[i].status = "over"}
    IN /\ warnings \cup dangers = DOMAIN o.alerts
       /\ Cardinality(warnings) =
            IF 12 * IncomeOf(userId, month) < TargetOf(userId) THEN 1 ELSE 0
       /\ Cardinality(dangers) = Cardinality(overPockets)
       /\ \A name \in {o.pockets[i].name : i \in overPockets} :
            Cardinality({i \in dangers : o.alerts[i].pocket = name})
              = Cardinality({i \in overPockets : o.pockets[i].name = name})

\* An overview has just been answered for a month whose income equals the
\* estimate: no warning, and the one alert is that of the pocket over budget.
C24_Witness ==
  /\ budgetResp.op = "overview"
  /\ TargetOf(budgetResp.user) > 0
  /\ 12 * IncomeOf(budgetResp.user, budgetResp.month) = TargetOf(budgetResp.user)
  /\ Len(budgetResp.alerts) = 1
  /\ budgetResp.alerts[1].type = "danger"
  /\ Len(budgetResp.pockets) = 2


\* ----------------------------------------------------------- notifications

\* The notification the delivery just answered has stored.
Delivered26 == {n \in notifications : resp.notification_id = {n.id}}

\* C26: a notification delivered with a target e-mail is owned by the user
\* whose profile has that e-mail and is listed for that user only; a broadcast
\* (no owner, listed for every user) results only from the target 'all' or
\* from no target.
C26_TargetedIsPersonal ==
  (resp.op = "notify" /\ resp.code = "OK") =>
    \A n \in Delivered26 :
      /\ resp.target \notin {"all", NULL} =>
           /\ \E q \in profiles : q.email = resp.target /\ n.user_id = {q.id}
           /\ \A u \in authUsers :
                n \in notifList(notifications, u.id) <=> n.user_id = {u.id}
      /\ n.user_id = {} => resp.target \in {"all", NULL}

\* C27: once PUT /notifications/:id/read has answered a user with success for
\* a broadcast notification, the read flag of that notification is set.
C27_BroadcastReadShared ==
  (resp.op = "read" /\ resp.code = "OK") =>
    \A n \in notifications :
      (n.id = resp.id /\ n.user_id = {}) => n.read


\* ------------------------------------------------------- racing deliveries

SameId(rows, externalId) == {s \in rows : s.external_id = externalId}

\* C28: a second row for an external subscription id appears only in the write
\* of a delivery whose lookup found nothing and was overtaken by the insert of
\* another delivery (the row is there by the time it writes); and a delivery
\* served without interruption, lookup then write, on a table with at most one
\* row per external id does what upsertFromWebhook does and leaves at most one.
C28_DuplicateOnlyWhenInterleaved ==
  /\ [][\A e \in ExternalIds :
          (Cardinality(SameId(subscriptions', e)) > 1
             /\ Cardinality(SameId(subscriptions, e)) <= 1)
          => \E x \in deliveries :
               /\ x.pc = "write" /\ x.externalId = e /\ x.existing = {}
               /\ SameId(subscriptions, e) # {}
               /\ x \notin deliveries']_vars
  /\ [](\A data \in RaceEvents, userId \in UserIds :
          (\A e \in ExternalIds : Cardinality(SameId(subscriptions, e)) <= 1) =>
            LET e == data.subscription_id
                after == writeUpsert(subscriptions, findExisting(subscriptions, e), userId,
                                     "gohighlevel", e, "active", data.next_billing_date)
            IN /\ after = upsertFromWebhook(DB, userId, "gohighlevel", e, "active",
                                            data.next_billing_date, "none").db.subscriptions
               /\ \A i \in ExternalIds : Cardinality(SameId(after, i)) <= 1)

\* Two deliveries for sub_1 have both inserted: two rows for that external id,
\* and nothing in flight.
C28_Witness ==
  /\ Cardinality(SameId(subscriptions, "sub_1")) = 2
  /\ deliveries = {}


\* The Stripe events of SpecGate that write a non-active profile flag.
FlagResets == {e \in GateStripeEvents : e.type = "customer.subscription.deleted"}

\* The CRM events that cancel, update or fail the payment of a record.
RecordEvents ==
  {e \in GateGhlEvents :
     e.type \in {"subscription.cancelled", "subscription.updated", "payment.failed"}}

\* C29: while a profile's flag is 'active' the gate lets its user through,
\* whatever happens to the user's rows in table subscriptions; after a step
\* the flag of such a profile is still 'active' and the gate still lets the
\* user through, unless the step is a Stripe event that writes a non-active
\* value to the flag; the CRM events subscription.cancelled,
\* subscription.updated and payment.failed never write table profiles.
C29_FlagKeepsAccess ==
  /\ [](\A p \in profiles :
          p.subscription_status = "active" =>
            requireSubscription(DB, now, {p.id}).code = "next")
  /\ [][\A p \in profiles :
          p.subscription_status = "active" =>
            \/ FlagActive(p.id)'
            \/ /\ \E q \in profiles' :
                    q.id = p.id /\ q.subscription_status \in {"cancelled", "none"}
               /\ \E event \in FlagResets :
                    DB' = stripeHandleWebhookEvent(DB, event, "none").db]_vars
  /\ [](\A payload \in RecordEvents :
          ghlHandleWebhookEvent(DB, payload, "none").db.profiles = profiles)

\* The gate has just let through a user whose flag is 'active' and whose
\* rows, one of them cancelled by the CRM, are all cancelled, paused or past
\* their period.
C29_Witness ==
  /\ resp.op = "requireSubscription"
  /\ resp.code = "next"
  /\ now > 0
  /\ \E id \in resp.user :
       /\ FlagActive(id)
       /\ RowsOf(id) # {}
       /\ \E s \in RowsOf(id) : s.status = "cancelled" /\ s.provider = "gohighlevel"
       /\ \A s \in RowsOf(id) : s.status # "active" \/ Expired(s)


\* C30: in production the check made at login and at /auth/me (getActive
\* returns a subscription) and the gate of the protected routes
\* (requireSubscription calls next) decide alike for every user, whatever the
\* profile flag and the user's rows in table subscriptions.
C30_LoginAgreesWithGate ==
  \A u \in authUsers :
    (getActive(DB, u.id) # {}) <=> (requireSubscription(DB, now, {u.id}).code = "next")

=============================================================================
